---- MODULE Spec2Model ----
(***************************************************************************)
(* A model of the decision-fusion core of the ETF/stock analysis platform: *)
(*   - SignalSystem.generate_signals      (src/core/signal_system.py)      *)
(*   - AlertSystem.generate_alerts        (src/core/alert_system.py)       *)
(*   - PricePredictor.predict_price       (src/core/predictor.py)          *)
(*                                                                         *)
(* Each of the three is a sequential, stateless function of indicator rows.*)
(* A call is modelled as a run of steps in source order (pc names the      *)
(* statement about to execute).  A row field that is read by one step only *)
(* is drawn when that step reads it; a field read by several steps is a    *)
(* variable drawn at the start of the call.                                *)
(*                                                                         *)
(* Numbers.  An optional number (None/NaN in pandas, tested by pd.isna) is *)
(* the empty tuple << >>, a present one is <<v>>.  signal_score and        *)
(* confidence are rationals kept as [num, den] with den > 0; every         *)
(* comparison is done by cross multiplication.  (On all 4^8 combinations   *)
(* of judge outcomes the IEEE-double results of the source compare to the  *)
(* thresholds 25/45/65/85 and 40/70 exactly as the rationals do.)          *)
(*                                                                         *)
(* Status strings: "Buy", "Sell", "Neutral" stand for the source's         *)
(* "买入", "卖出", "中性".                                                  *)
(***************************************************************************)
EXTENDS Integers, Sequences, FiniteSets, TLC

\* ---------------------------------------------------------------- bounds

\* Prices (close, moving averages, Bollinger bands) range over 1..PriceMax.
PriceMax == 4

\* ------------------------------------------------------- optional numbers

None == << >>

Some(v) == <<v>>

\* pd.isna / pd.notna
IsNa(x) == x = << >>

NotNa(x) == x # << >>

Val(x) == x[1]

Opt(S) == {None} \cup {Some(v) : v \in S}

\* ------------------------------------------------------------- rationals

Rat(n, d) == [num |-> n, den |-> d]

RatGE(q, k) == q.num >= k * q.den

RatLT(q, k) == q.num < k * q.den

RatEQ(q, k) == q.num = k * q.den

\* ------------------------------------------------------------ input sets

Prices == 1..PriceMax

OptPrices == Opt(Prices)

\* RSI readings around the judge's thresholds 30/40/60/70
RSIValues == {25, 30, 35, 40, 50, 60, 65, 70, 75}

\* KDJ K and D readings around the thresholds 20/80 (J = 3K - 2D)
KDValues == {10, 20, 50, 80, 90}

\* MACD line / signal line readings around the zero axis
MACDValues == {-1, 0, 1}

\* CCI readings around +-100
CCIValues == {-150, -100, 0, 100, 150}

\* OBV readings
OBVValues == {1, 2, 3}

\* Williams readings (standard -100..0 convention) around -20/-80
WRValues == {-90, -80, -50, -20, -10}

\* =====================================================================
\* SignalSystem
\* =====================================================================

VARIABLES
    sig_pc,              \* statement of generate_signals about to run
    sig_close,           \* latest.get("close"), read by the MA and Bollinger judges
    signal_data,         \* the dict built and returned by generate_signals
    total_weight,
    buy_weight,
    sell_weight

sigVars == <<sig_pc, sig_close, signal_data, total_weight, buy_weight, sell_weight>>

\* One call of AlertSystem.generate_alerts (alert_system.py:32)
VARIABLES
    al_pc,           \* statement of generate_alerts about to run
    hist_len,        \* len(historical_data)
    close_pos,       \* recent_close[-1] against recent_close[:-1]
    al_rsi,          \* latest RSI_14 (the last value of the RSI_14 column)
    al_kdj_j,        \* latest KDJ_J
    al_cci,          \* latest CCI_14
    alerts,          \* the list the detectors extend
    alert_data,      \* the returned dict, None until the return
    al_failed        \* detectors whose try block raised

alertVars == <<al_pc, hist_len, close_pos, al_rsi, al_kdj_j, al_cci, alerts, alert_data, al_failed>>

\* One call of PricePredictor.predict_price (predictor.py:22)
VARIABLES
    pred_pc,             \* statement of predict_price about to run
    hist_form,           \* what historical_data is
    pred_len,            \* len(historical_data)
    current_price,       \* latest.get("close")
    support_levels,      \* the candidates appended at predictor.py:153-176
    resistance_levels,   \* the candidates appended at predictor.py:185-209
    sr_return,           \* what _calculate_support_resistance_debug returned
    support_resistance,  \* what _calculate_support_resistance returned
    trend_probability,
    predictions,
    prediction_data      \* the returned dict, None until the return

predVars == <<pred_pc, hist_form, pred_len, current_price, support_levels,
              resistance_levels, sr_return, support_resistance,
              trend_probability, predictions, prediction_data>>

\* One call of judge_trend_status(latest, prev_latest) (indicators.py:93)
VARIABLES
    trend_pc,        \* "judge" before the call, "done" after it
    tr_close,        \* latest.get("close")
    tr_sma_20,       \* latest.get("SMA_20")
    tr_sma_60,       \* SMA_60 of the row
    tr_middle_bb,    \* latest.get("BBM_20_2.0")
    trend_status     \* the returned status, None until the return

trendVars == <<trend_pc, tr_close, tr_sma_20, tr_sma_60, tr_middle_bb, trend_status>>

\* The eight narrators run on one trend_signals list (analysis.py:516-530)
VARIABLES
    narr_pc,         \* the narrator to call next, "done" after the last one
    trend_signals,   \* the shared message list
    narr_failed      \* narrators whose try block raised

narrVars == <<narr_pc, trend_signals, narr_failed>>

\* One call of calculate_forward_indicators(df) or of
\* calculate_minute_indicators(minute_df, period) (indicators.py:336, 674)
VARIABLES
    ind_pc,          \* "forward" or "minute" before the call, "done" after it
    ind_df           \* the DataFrame argument, which the call writes in place

indVars == <<ind_pc, ind_df>>

\* One run of generate_ai_driven_report over a pool (analysis.py:95)
VARIABLES
    pl_pc,             \* "fetch", "report", "sort", "done"
    pool,              \* per symbol of core_pool: what its fetches and calls give
    pl_i,              \* index of the symbol the running loop is at
    analysis_report,   \* the list _get_daily_trends_generic builds
    final_report,      \* the list generate_ai_driven_report builds
    budget_exhausted,  \* a time budget check has ended a loop or the wait
    pl_returned        \* the returned report, None until the return

pipeVars == <<pl_pc, pool, pl_i, analysis_report, final_report, budget_exhausted, pl_returned>>

\* One call of a detector of AlertSystem on the fields it reads
VARIABLES
    det_pc,            \* "ma_alignment", "signal_conflict", "done"
    det_close,         \* latest.get("close")
    det_sma_5,         \* latest.get("SMA_5")
    det_sma_10,        \* latest.get("SMA_10")
    det_sma_20,        \* latest.get("SMA_20")
    det_signal_data,   \* the signal_data argument of generate_alerts
    det_ma_alerts,     \* what _check_ma_alignment returned
    det_conflict_alerts \* what step 6 of generate_alerts added

detVars == <<det_pc, det_close, det_sma_5, det_sma_10, det_sma_20, det_signal_data, det_ma_alerts, det_conflict_alerts>>

\* One call of _predict_single_day with its prices (predictor.py:328)
VARIABLES
    sd_pc,           \* "call" before the call, "done" after it
    sd_price,        \* latest.get("close"), in cents
    sd_volatility,   \* daily_volatility, in percent
    sd_day,          \* index of the horizon in prediction_days
    sd_support,      \* support_resistance["support"]
    sd_resistance,   \* support_resistance["resistance"]
    sd_tp,           \* trend_probability
    sd_prediction    \* high, low and target of the returned dict

sdVars == <<sd_pc, sd_price, sd_volatility, sd_day, sd_support, sd_resistance, sd_tp, sd_prediction>>

\* The columns of one symbol's frame through the daily pipeline
\* (analysis.py:487-545) and the reads of the judges and detectors
VARIABLES
    col_pc,            \* "daily", "forward", "volume", "judges", "detectors", "done"
    col_frame,         \* result.columns
    col_null,          \* written columns whose latest value is null
    col_judges,        \* per judge: "available", "null" or "no_column"
    col_alert_missing  \* columns the detectors read that the frame lacks

colVars == <<col_pc, col_frame, col_null, col_judges, col_alert_missing>>

\* PricePredictor.predict_price and PricePredictorDebug.predict_price on the
\* same arguments (predictor.py:22, 990)
VARIABLES
    cmp_pc,          \* "base", "debug", "done"
    cmp_len,         \* len(historical_data)
    cmp_close,       \* latest.get("close")
    cmp_row,         \* SMA_5, SMA_20, RSI_14, KDJ_K, KDJ_D of the latest row
    cmp_avg_change,  \* mean of the last three pct_change values, in 1/10000
    cmp_base,        \* what PricePredictor.predict_price returned
    cmp_debug        \* what PricePredictorDebug.predict_price returned, less debug_info

cmpVars == <<cmp_pc, cmp_len, cmp_close, cmp_row, cmp_avg_change, cmp_base, cmp_debug>>

vars == <<sigVars, alertVars, predVars, trendVars, narrVars, indVars, pipeVars, detVars, sdVars, colVars, cmpVars>>

\* what a call leaves alone: the variables of the other components
NotSignal == <<alertVars, predVars, trendVars, narrVars, indVars, pipeVars, detVars, sdVars, colVars, cmpVars>>

NotAlert == <<sigVars, predVars, trendVars, narrVars, indVars, pipeVars, detVars, sdVars, colVars, cmpVars>>

NotPredict == <<sigVars, alertVars, trendVars, narrVars, indVars, pipeVars, detVars, sdVars, colVars, cmpVars>>

NotTrend == <<sigVars, alertVars, predVars, narrVars, indVars, pipeVars, detVars, sdVars, colVars, cmpVars>>

NotNarrators == <<sigVars, alertVars, predVars, trendVars, indVars, pipeVars, detVars, sdVars, colVars, cmpVars>>

NotIndicators == <<sigVars, alertVars, predVars, trendVars, narrVars, pipeVars, detVars, sdVars, colVars, cmpVars>>

NotPipeline == <<sigVars, alertVars, predVars, trendVars, narrVars, indVars, detVars, sdVars, colVars, cmpVars>>

NotDetectors == <<sigVars, alertVars, predVars, trendVars, narrVars, indVars, pipeVars, sdVars, colVars, cmpVars>>

NotSingleDay == <<sigVars, alertVars, predVars, trendVars, narrVars, indVars, pipeVars, detVars, colVars, cmpVars>>

NotColumns == <<sigVars, alertVars, predVars, trendVars, narrVars, indVars, pipeVars, detVars, sdVars, cmpVars>>

NotCompare == <<sigVars, alertVars, predVars, trendVars, narrVars, indVars, pipeVars, detVars, sdVars, colVars>>

Judges == {"RSI", "KDJ", "MACD", "MA", "BOLLINGER", "CCI", "OBV", "WILLIAMS"}

signal_weights ==
    [RSI |-> 25, KDJ |-> 20, MACD |-> 20, MA |-> 15,
     BOLLINGER |-> 10, CCI |-> 5, OBV |-> 3, WILLIAMS |-> 2]

\* A judge's result: None (indicator unavailable) or Some([status, weight]).
Result(name, status) == Some([status |-> status, weight |-> signal_weights[name]])

_evaluate_rsi(rsi) ==
    IF IsNa(rsi) THEN None
    ELSE IF Val(rsi) < 30 THEN Result("RSI", "Buy")
    ELSE IF Val(rsi) < 40 THEN Result("RSI", "Buy")
    ELSE IF Val(rsi) > 70 THEN Result("RSI", "Sell")
    ELSE IF Val(rsi) > 60 THEN Result("RSI", "Sell")
    ELSE Result("RSI", "Neutral")

_evaluate_kdj(k_val, j_val, prev_k, prev_d) ==
    IF IsNa(k_val) \/ IsNa(j_val) THEN None
    ELSE IF NotNa(prev_k) /\ NotNa(prev_d)
            /\ Val(k_val) > Val(prev_d) /\ Val(prev_k) <= Val(prev_d)
         THEN Result("KDJ", "Buy")
    ELSE IF NotNa(prev_k) /\ NotNa(prev_d)
            /\ Val(k_val) < Val(prev_d) /\ Val(prev_k) >= Val(prev_d)
         THEN Result("KDJ", "Sell")
    ELSE IF Val(j_val) < 0 THEN Result("KDJ", "Buy")
    ELSE IF Val(j_val) > 100 THEN Result("KDJ", "Sell")
    ELSE IF Val(k_val) < 20 THEN Result("KDJ", "Buy")
    ELSE IF Val(k_val) > 80 THEN Result("KDJ", "Sell")
    ELSE Result("KDJ", "Neutral")

_evaluate_macd(macd, signal, prev_macd, prev_signal) ==
    IF IsNa(macd) \/ IsNa(signal) THEN None
    ELSE IF NotNa(prev_macd) /\ NotNa(prev_signal)
            /\ Val(macd) > Val(signal) /\ Val(prev_macd) <= Val(prev_signal)
         THEN Result("MACD", "Buy")
    ELSE IF NotNa(prev_macd) /\ NotNa(prev_signal)
            /\ Val(macd) < Val(signal) /\ Val(prev_macd) >= Val(prev_signal)
         THEN Result("MACD", "Sell")
    ELSE IF Val(macd) > 0 /\ Val(signal) > 0 THEN Result("MACD", "Buy")
    ELSE IF Val(macd) < 0 /\ Val(signal) < 0 THEN Result("MACD", "Sell")
    ELSE Result("MACD", "Neutral")

_evaluate_ma(close, sma_5, sma_10, sma_20) ==
    IF IsNa(close) \/ IsNa(sma_20) THEN None
    ELSE IF NotNa(sma_5) /\ NotNa(sma_10)
            /\ Val(close) > Val(sma_5) /\ Val(sma_5) > Val(sma_10)
            /\ Val(sma_10) > Val(sma_20)
         THEN Result("MA", "Buy")
    ELSE IF NotNa(sma_5) /\ NotNa(sma_10)
            /\ Val(close) < Val(sma_5) /\ Val(sma_5) < Val(sma_10)
            /\ Val(sma_10) < Val(sma_20)
         THEN Result("MA", "Sell")
    ELSE IF Val(close) > Val(sma_20) THEN Result("MA", "Buy")
    ELSE IF Val(close) < Val(sma_20) THEN Result("MA", "Sell")
    ELSE Result("MA", "Neutral")

\* upper, lower and middle are null together (all three are derived from the
\* same 20-bar window), so the comparisons below never meet a None.
_evaluate_bollinger(close, upper, lower, middle) ==
    IF IsNa(close) \/ IsNa(lower) THEN None
    ELSE IF Val(close) < Val(lower) THEN Result("BOLLINGER", "Buy")
    ELSE IF Val(close) > Val(upper) THEN Result("BOLLINGER", "Sell")
    ELSE IF Val(close) > Val(middle) THEN Result("BOLLINGER", "Buy")
    ELSE Result("BOLLINGER", "Sell")

_evaluate_cci(cci) ==
    IF IsNa(cci) THEN None
    ELSE IF Val(cci) < -100 THEN Result("CCI", "Buy")
    ELSE IF Val(cci) > 100 THEN Result("CCI", "Sell")
    ELSE Result("CCI", "Neutral")

_evaluate_obv(obv, prev_obv) ==
    IF IsNa(obv) THEN None
    ELSE IF NotNa(prev_obv) /\ Val(obv) > Val(prev_obv) THEN Result("OBV", "Buy")
    ELSE IF NotNa(prev_obv) /\ Val(obv) < Val(prev_obv) THEN Result("OBV", "Sell")
    ELSE Result("OBV", "Neutral")

_evaluate_williams(wr) ==
    IF IsNa(wr) THEN None
    ELSE IF Val(wr) > -20 THEN Result("WILLIAMS", "Buy")
    ELSE IF Val(wr) < -80 THEN Result("WILLIAMS", "Sell")
    ELSE Result("WILLIAMS", "Neutral")

\* The initial signal_data dict of generate_signals.
InitialSignalData ==
    [signal_type |-> "Hold",
     signal_score |-> Rat(50, 1),
     confidence |-> Rat(50, 1),
     signal_reasons |-> << >>,
     signal_strength |-> "Weak",
     forward_indicators |-> << >>]

\* forward_indicators with entry name set to r
PutIndicator(fi, name, r) ==
    [n \in (DOMAIN fi) \cup {name} |-> IF n = name THEN r ELSE fi[n]]

\* Mutant: a Neutral result does not count towards total_weight.
TotalWeightGain_SkipNeutral(name, r) ==
    IF r.status = "Neutral" THEN 0 ELSE signal_weights[name]

\* Weight added to total_weight for a judge that returned a result.
TotalWeightGain(name, r) == signal_weights[name]

\* The block "if <judge>_result: ..." that follows each judge call: record the
\* result, add its weight to the totals, append a reason for Buy/Sell.
Accumulate(name, res, next) ==
    /\ sig_pc' = next
    /\ IF IsNa(res)
       THEN UNCHANGED <<signal_data, total_weight, buy_weight, sell_weight>>
       ELSE LET r == Val(res) IN
            /\ total_weight' = total_weight + TotalWeightGain(name, r)
            /\ buy_weight' = IF r.status = "Buy"
                             THEN buy_weight + signal_weights[name]
                             ELSE buy_weight
            /\ sell_weight' = IF r.status = "Sell"
                              THEN sell_weight + signal_weights[name]
                              ELSE sell_weight
            /\ signal_data' =
                 [signal_data EXCEPT
                    !.forward_indicators = PutIndicator(@, name, r),
                    !.signal_reasons =
                        IF r.status \in {"Buy", "Sell"}
                        THEN Append(@, <<name, r.status>>)
                        ELSE @]

SigInit ==
    /\ sig_pc = "rsi"
    /\ sig_close \in OptPrices
    /\ signal_data = InitialSignalData
    /\ total_weight = 0
    /\ buy_weight = 0
    /\ sell_weight = 0

EvalRSI ==
    /\ sig_pc = "rsi"
    /\ \E rsi \in Opt(RSIValues) :
          Accumulate("RSI", _evaluate_rsi(rsi), "kdj")
    /\ UNCHANGED <<sig_close, NotSignal>>

\* K, D and J are null together; J = 3K - 2D (indicators.py:354).
EvalKDJ ==
    /\ sig_pc = "kdj"
    /\ \E kd \in {None} \cup {Some(<<k, d>>) : k \in KDValues, d \in KDValues},
          prev_k \in Opt(KDValues), prev_d \in Opt(KDValues) :
          LET k_val == IF IsNa(kd) THEN None ELSE Some(Val(kd)[1])
              j_val == IF IsNa(kd) THEN None
                       ELSE Some(3 * Val(kd)[1] - 2 * Val(kd)[2])
          IN  Accumulate("KDJ", _evaluate_kdj(k_val, j_val, prev_k, prev_d), "macd")
    /\ UNCHANGED <<sig_close, NotSignal>>

EvalMACD ==
    /\ sig_pc = "macd"
    /\ \E macd \in Opt(MACDValues), signal \in Opt(MACDValues),
          prev_macd \in Opt(MACDValues), prev_signal \in Opt(MACDValues) :
          /\ IsNa(macd) <=> IsNa(signal)
          /\ Accumulate("MACD",
                        _evaluate_macd(macd, signal, prev_macd, prev_signal), "ma")
    /\ UNCHANGED <<sig_close, NotSignal>>

EvalMA ==
    /\ sig_pc = "ma"
    /\ \E sma_5 \in OptPrices, sma_10 \in OptPrices, sma_20 \in OptPrices :
          Accumulate("MA", _evaluate_ma(sig_close, sma_5, sma_10, sma_20), "bollinger")
    /\ UNCHANGED <<sig_close, NotSignal>>

EvalBollinger ==
    /\ sig_pc = "bollinger"
    /\ \E bands \in {None} \cup
                    {Some(<<u, m, l>>) : u \in Prices, m \in Prices, l \in Prices} :
          /\ NotNa(bands) => Val(bands)[3] <= Val(bands)[2]
                             /\ Val(bands)[2] <= Val(bands)[1]
          /\ LET upper == IF IsNa(bands) THEN None ELSE Some(Val(bands)[1])
                 middle == IF IsNa(bands) THEN None ELSE Some(Val(bands)[2])
                 lower == IF IsNa(bands) THEN None ELSE Some(Val(bands)[3])
             IN  Accumulate("BOLLINGER",
                            _evaluate_bollinger(sig_close, upper, lower, middle), "cci")
    /\ UNCHANGED <<sig_close, NotSignal>>

EvalCCI ==
    /\ sig_pc = "cci"
    /\ \E cci \in Opt(CCIValues) :
          Accumulate("CCI", _evaluate_cci(cci), "obv")
    /\ UNCHANGED <<sig_close, NotSignal>>

EvalOBV ==
    /\ sig_pc = "obv"
    /\ \E obv \in Opt(OBVValues), prev_obv \in Opt(OBVValues) :
          Accumulate("OBV", _evaluate_obv(obv, prev_obv), "williams")
    /\ UNCHANGED <<sig_close, NotSignal>>

EvalWilliams ==
    /\ sig_pc = "williams"
    /\ \E wr \in Opt(WRValues) :
          Accumulate("WILLIAMS", _evaluate_williams(wr), "aggregate")
    /\ UNCHANGED <<sig_close, NotSignal>>

\* Mutant: the net share is scaled to -50..50 but not shifted to 0..100.
SignalScore_NoOffset(buy, sell, total) ==
    IF total > 0 THEN Rat(50 * (buy - sell), total)
    ELSE Rat(50, 1)

\* signal_score: 50 + 50 * (buy - sell) / total, or 50 when nothing was judged
SignalScore(buy, sell, total) ==
    IF total > 0 THEN Rat(50 * (buy - sell) + 50 * total, total)
    ELSE Rat(50, 1)

CountStatus(fi, statuses) ==
    Cardinality({n \in DOMAIN fi : fi[n].status \in statuses})

Max(a, b) == IF a >= b THEN a ELSE b

\* Mutant: the dominant side is measured against every judged indicator.
Confidence_OfJudged(fi) ==
    IF CountStatus(fi, {"Buy", "Sell"}) > 0
    THEN Rat(100 * Max(CountStatus(fi, {"Buy"}), CountStatus(fi, {"Sell"})), Cardinality(DOMAIN fi))
    ELSE Rat(50, 1)

\* confidence: share of the dominant side among the Buy/Sell results, or 50
Confidence(fi) ==
    LET signal_count == CountStatus(fi, {"Buy", "Sell"})
        buy_count == CountStatus(fi, {"Buy"})
        sell_count == CountStatus(fi, {"Sell"})
        dominant_count == Max(buy_count, sell_count)
    IN  IF signal_count > 0 THEN Rat(100 * dominant_count, signal_count)
        ELSE Rat(50, 1)

\* Mutant: the thresholds are exclusive.
SignalType_Strict(score) ==
    IF ~RatLT(score, 85) /\ ~RatEQ(score, 85) THEN "Strong Buy"
    ELSE IF ~RatLT(score, 65) /\ ~RatEQ(score, 65) THEN "Buy"
    ELSE IF ~RatLT(score, 45) /\ ~RatEQ(score, 45) THEN "Hold"
    ELSE IF ~RatLT(score, 25) /\ ~RatEQ(score, 25) THEN "Sell"
    ELSE "Strong Sell"

SignalType(score) ==
    IF RatGE(score, 85) THEN "Strong Buy"
    ELSE IF RatGE(score, 65) THEN "Buy"
    ELSE IF RatGE(score, 45) THEN "Hold"
    ELSE IF RatGE(score, 25) THEN "Sell"
    ELSE "Strong Sell"

\* signal_strength as set together with signal_type
TypeStrength(type) ==
    IF type \in {"Strong Buy", "Strong Sell"} THEN "Strong" ELSE "Weak"

\* "adjust signal strength by confidence", the last statement before return
AdjustStrength(confidence, strength) ==
    IF RatGE(confidence, 70) THEN "Strong"
    ELSE IF RatGE(confidence, 40) THEN "Weak"
    ELSE strength

HoldPlaceholder == << <<"HOLD", "placeholder">> >>

\* Mutant: the placeholder is appended to the judges' reasons.
FinalReasons_Append(type, reasons) ==
    IF type = "Hold" THEN reasons \o HoldPlaceholder ELSE reasons

\* Hold clears the reasons to the one fixed message
FinalReasons(type, reasons) ==
    IF type = "Hold" THEN HoldPlaceholder ELSE reasons

\* Score, confidence, type, reasons and strength, then return signal_data.
Aggregate ==
    /\ sig_pc = "aggregate"
    /\ LET score == SignalScore(buy_weight, sell_weight, total_weight)
           conf == Confidence(signal_data.forward_indicators)
           type == SignalType(score)
       IN  signal_data' =
             [signal_data EXCEPT
                !.signal_score = score,
                !.confidence = conf,
                !.signal_type = type,
                !.signal_reasons = FinalReasons(type, @),
                !.signal_strength = AdjustStrength(conf, TypeStrength(type))]
    /\ sig_pc' = "done"
    /\ UNCHANGED <<sig_close, total_weight, buy_weight, sell_weight, NotSignal>>

SigNext ==
    \/ EvalRSI
    \/ EvalKDJ
    \/ EvalMACD
    \/ EvalMA
    \/ EvalBollinger
    \/ EvalCCI
    \/ EvalOBV
    \/ EvalWilliams
    \/ Aggregate

\* =====================================================================
\* AlertSystem
\* =====================================================================
\* One call of generate_alerts(historical_data, latest, prev_latest,
\* signal_data).  The six detectors run in source order.  The latest RSI_14,
\* KDJ_J and CCI_14 are kept for the whole call; the trailing 10-bar windows
\* are kept as what the code computes from them: the last value against the
\* maximum and the minimum of the nine values before it.

\* RSI_14 readings around the detector's thresholds 20/30/70/80
AlertRSIValues == {15, 25, 50, 75, 85}

\* KDJ_J readings around 0/100
AlertJValues == {-5, 50, 105}

\* CCI_14 readings around -200/100/200
AlertCCIValues == {-250, 0, 150, 250}

\* history lengths below and from the 10-bar window on
HistLens == {9, 10}

alert_types ==
    [trend_reversal |-> "trend_reversal",
     overbought_oversold |-> "overbought_oversold",
     divergence |-> "divergence",
     breakout |-> "breakout",
     ma_alignment |-> "ma_alignment",
     signal_conflict |-> "signal_conflict"]

\* An alert as the aggregation reads it; its message and value are display text.
Alert(level, type, indicator) ==
    [level |-> level, type |-> type, indicator |-> indicator]

\* recent_close[-1] > max(recent_close[:-1]) / < min(...) / neither
ClosePositions == {"new_high", "new_low", "inside"}

\* A window of an indicator column: its last value, and the maximum and
\* minimum of the values before it.
Windows(S) ==
    {w \in [last : S, pmax : S, pmin : S] : w.pmin <= w.pmax}

\* 1. trend reversal: MACD divergence over the last 10 bars, then the
\* MA5/MA10 pre-cross test.
_check_trend_reversal(len, pos, macd, sma_5, sma_10, prev_sma_10) ==
    LET top == IF len >= 10 /\ pos = "new_high" /\ macd.last < macd.pmax
               THEN <<Alert("high", alert_types.trend_reversal, "MACD")>>
               ELSE << >>
        bottom == IF len >= 10 /\ pos = "new_low" /\ macd.last > macd.pmin
                  THEN <<Alert("medium", alert_types.trend_reversal, "MACD")>>
                  ELSE << >>
        cross == IF NotNa(sma_5) /\ NotNa(sma_10)
                 THEN IF NotNa(prev_sma_10) /\ Val(sma_5) > Val(prev_sma_10)
                         /\ Val(sma_5) < Val(sma_10)
                      THEN <<Alert("medium", alert_types.trend_reversal, "MA")>>
                      ELSE IF NotNa(prev_sma_10) /\ Val(sma_5) < Val(prev_sma_10)
                              /\ Val(sma_5) > Val(sma_10)
                      THEN <<Alert("medium", alert_types.trend_reversal, "MA")>>
                      ELSE << >>
                 ELSE << >>
    IN  top \o bottom \o cross

RsiAlerts(rsi) ==
    IF IsNa(rsi) THEN << >>
    ELSE IF Val(rsi) >= 80
         THEN <<Alert("high", alert_types.overbought_oversold, "RSI")>>
    ELSE IF Val(rsi) >= 70
         THEN <<Alert("medium", alert_types.overbought_oversold, "RSI")>>
    ELSE IF Val(rsi) <= 20
         THEN <<Alert("medium", alert_types.overbought_oversold, "RSI")>>
    ELSE IF Val(rsi) <= 30
         THEN <<Alert("low", alert_types.overbought_oversold, "RSI")>>
    ELSE << >>

\* Mutant: J >= 100 is reported as a medium alert.
KdjAlerts_Medium(kdj_j) ==
    IF IsNa(kdj_j) THEN << >>
    ELSE IF Val(kdj_j) >= 100
         THEN <<Alert("medium", alert_types.overbought_oversold, "KDJ")>>
    ELSE IF Val(kdj_j) <= 0
         THEN <<Alert("medium", alert_types.overbought_oversold, "KDJ")>>
    ELSE << >>

KdjAlerts(kdj_j) ==
    IF IsNa(kdj_j) THEN << >>
    ELSE IF Val(kdj_j) >= 100
         THEN <<Alert("high", alert_types.overbought_oversold, "KDJ")>>
    ELSE IF Val(kdj_j) <= 0
         THEN <<Alert("medium", alert_types.overbought_oversold, "KDJ")>>
    ELSE << >>

CciAlerts(cci) ==
    IF IsNa(cci) THEN << >>
    ELSE IF Val(cci) >= 200
         THEN <<Alert("high", alert_types.overbought_oversold, "CCI")>>
    ELSE IF Val(cci) >= 100
         THEN <<Alert("medium", alert_types.overbought_oversold, "CCI")>>
    ELSE IF Val(cci) <= -200
         THEN <<Alert("medium", alert_types.overbought_oversold, "CCI")>>
    ELSE << >>

WrAlerts(wr) ==
    IF IsNa(wr) THEN << >>
    ELSE IF Val(wr) <= -80
         THEN <<Alert("high", alert_types.overbought_oversold, "WR")>>
    ELSE IF Val(wr) >= -20
         THEN <<Alert("medium", alert_types.overbought_oversold, "WR")>>
    ELSE << >>

\* 2. overbought / oversold ladder over RSI_14, KDJ_J, CCI_14, WR_14
_check_overbought_oversold(rsi, kdj_j, cci, wr) ==
    RsiAlerts(rsi) \o KdjAlerts(kdj_j) \o CciAlerts(cci) \o WrAlerts(wr)

\* top divergence (high) / bottom divergence (medium) of one indicator window
DivergenceAlerts(pos, w, indicator) ==
    (IF pos = "new_high" /\ w.last < w.pmax
     THEN <<Alert("high", alert_types.divergence, indicator)>>
     ELSE << >>)
    \o
    (IF pos = "new_low" /\ w.last > w.pmin
     THEN <<Alert("medium", alert_types.divergence, indicator)>>
     ELSE << >>)

\* 3. divergence of RSI_14 and OBV against price over the last 10 bars; rsi
\* is None when the column is missing or its last value is NaN, obv when the
\* column is missing or all null.  An OBV column that is present has no null
\* in the window, so that its close window is the 10-bar one.
_check_divergence(len, pos, rsi, obv) ==
    IF len < 10 THEN << >>
    ELSE (IF NotNa(rsi) THEN DivergenceAlerts(pos, Val(rsi), "RSI") ELSE << >>)
         \o (IF NotNa(obv) THEN DivergenceAlerts(pos, Val(obv), "OBV") ELSE << >>)

\* 4. Bollinger breakout and MACD zero-axis crossing
_check_breakout(close, bb_upper, bb_lower, macd, prev_macd) ==
    (IF NotNa(close) /\ NotNa(bb_upper) /\ NotNa(bb_lower)
     THEN IF Val(close) > Val(bb_upper)
          THEN <<Alert("medium", alert_types.breakout, "BOLLINGER")>>
          ELSE IF Val(close) < Val(bb_lower)
          THEN <<Alert("medium", alert_types.breakout, "BOLLINGER")>>
          ELSE << >>
     ELSE << >>)
    \o
    (IF NotNa(macd) /\ NotNa(prev_macd)
     THEN IF Val(macd) > 0 /\ Val(prev_macd) <= 0
          THEN <<Alert("low", alert_types.breakout, "MACD")>>
          ELSE IF Val(macd) < 0 /\ Val(prev_macd) >= 0
          THEN <<Alert("low", alert_types.breakout, "MACD")>>
          ELSE << >>
     ELSE << >>)

\* Mutant: an ordering that is neither perfect alignment raises nothing.
_check_ma_alignment_SilentWhenMixed(close, sma_5, sma_10, sma_20) ==
    IF NotNa(close) /\ NotNa(sma_5) /\ NotNa(sma_10) /\ NotNa(sma_20)
       /\ (\/ (Val(close) > Val(sma_5) /\ Val(sma_5) > Val(sma_10) /\ Val(sma_10) > Val(sma_20))
           \/ (Val(close) < Val(sma_5) /\ Val(sma_5) < Val(sma_10) /\ Val(sma_10) < Val(sma_20)))
    THEN <<Alert("low", alert_types.ma_alignment, "MA")>>
    ELSE << >>

\* 5. short-term moving-average alignment.  The guard tests close, SMA_5 and
\* SMA_20 only; a NaN SMA_10 makes both chained comparisons false.
_check_ma_alignment(close, sma_5, sma_10, sma_20) ==
    IF NotNa(close) /\ NotNa(sma_5) /\ NotNa(sma_20)
    THEN IF NotNa(sma_10) /\ Val(close) > Val(sma_5) /\ Val(sma_5) > Val(sma_10)
            /\ Val(sma_10) > Val(sma_20)
         THEN <<Alert("low", alert_types.ma_alignment, "MA")>>
         ELSE IF NotNa(sma_10) /\ Val(close) < Val(sma_5) /\ Val(sma_5) < Val(sma_10)
                 /\ Val(sma_10) < Val(sma_20)
         THEN <<Alert("low", alert_types.ma_alignment, "MA")>>
         ELSE <<Alert("medium", alert_types.ma_alignment, "MA")>>
    ELSE << >>

\* Mutant: one judge on each side is a conflict.
_check_signal_conflict_OneEach(sd) ==
    (IF CountStatus(sd.forward_indicators, {"Buy"}) >= 1
        /\ CountStatus(sd.forward_indicators, {"Sell"}) >= 1
     THEN <<Alert("medium", alert_types.signal_conflict, "Multiple")>>
     ELSE << >>)
    \o
    (IF RatLT(sd.confidence, 30)
     THEN <<Alert("low", alert_types.signal_conflict, "Confidence")>>
     ELSE << >>)

\* 6. signal conflict, on a supplied SignalBundle
_check_signal_conflict(sd) ==
    (IF CountStatus(sd.forward_indicators, {"Buy"}) >= 2
        /\ CountStatus(sd.forward_indicators, {"Sell"}) >= 2
     THEN <<Alert("medium", alert_types.signal_conflict, "Multiple")>>
     ELSE << >>)
    \o
    (IF RatLT(sd.confidence, 30)
     THEN <<Alert("low", alert_types.signal_conflict, "Confidence")>>
     ELSE << >>)

CountLevel(as, level) == Cardinality({i \in DOMAIN as : as[i].level = level})

AlertCount(as) ==
    [high |-> CountLevel(as, "high"),
     medium |-> CountLevel(as, "medium"),
     low |-> CountLevel(as, "low")]

\* Mutant: medium alerts never raise the overall risk to high.
_determine_overall_risk_HighOnly(alert_count) ==
    IF alert_count.high >= 1 THEN "high"
    ELSE IF alert_count.medium >= 1 THEN "medium"
    ELSE "low"

_determine_overall_risk(alert_count) ==
    IF alert_count.high >= 2 THEN "high"
    ELSE IF alert_count.high >= 1 \/ alert_count.medium >= 3 THEN "high"
    ELSE IF alert_count.medium >= 1 THEN "medium"
    ELSE "low"

\* ---- the SignalBundle handed to generate_alerts (fields the detector reads)

\* Up to MaxSide judges on the Buy side and up to MaxSide on the Sell side.
MaxSide == 2

JudgeOrder == <<"RSI", "KDJ", "MACD", "MA", "BOLLINGER", "CCI", "OBV", "WILLIAMS">>

\* forward_indicators with the first k judges Buy and the next m Sell
SideIndicators(k, m) ==
    [n \in {JudgeOrder[i] : i \in 1..(k + m)} |->
        LET i == CHOOSE j \in 1..(k + m) : JudgeOrder[j] = n
        IN  [status |-> IF i <= k THEN "Buy" ELSE "Sell",
             weight |-> signal_weights[n]]]

\* The bundle generate_signals returns from its except branch.
FallbackSignalData ==
    [signal_type |-> "Hold",
     signal_score |-> Rat(50, 1),
     confidence |-> Rat(0, 1),
     signal_reasons |-> << <<"HOLD", "failed">> >>,
     signal_strength |-> "Weak",
     forward_indicators |-> << >>]

SuppliedBundles ==
    {[forward_indicators |-> SideIndicators(k, m),
      confidence |-> Confidence(SideIndicators(k, m))] :
        k \in 0..MaxSide, m \in 0..MaxSide}
    \cup {[forward_indicators |-> FallbackSignalData.forward_indicators,
           confidence |-> FallbackSignalData.confidence]}

\* ---- the call

\* Each detector step draws the fields it reads from the call's arguments and
\* extends alerts by what the detector returns for them.

AlInit ==
    /\ al_pc = "trend_reversal"
    /\ hist_len \in HistLens
    /\ close_pos \in ClosePositions
    /\ al_rsi \in Opt(AlertRSIValues)
    /\ al_kdj_j \in Opt(AlertJValues)
    /\ al_cci \in Opt(AlertCCIValues)
    /\ alerts = << >>
    /\ alert_data = None
    /\ al_failed = {}

AlFrame == UNCHANGED <<hist_len, close_pos, al_rsi, al_kdj_j, al_cci, alert_data, NotAlert>>

\* The detector's try block raises: "return alerts" after the except branch
\* hands back the alerts appended before the raise.
ReturnedOnFailure(found) == {SubSeq(found, 1, k) : k \in 0..Len(found)}

\* what _check_trend_reversal finds over the MACD windows and the rows of
\* SMA_5, SMA_10 and the previous SMA_10
TrendReversalResults ==
    {_check_trend_reversal(hist_len, close_pos, macd, sma_5, sma_10, prev_sma_10) :
        macd \in Windows(MACDValues), sma_5 \in OptPrices,
        sma_10 \in OptPrices, prev_sma_10 \in OptPrices}

OverboughtOversoldResults ==
    {_check_overbought_oversold(al_rsi, al_kdj_j, al_cci, wr) : wr \in Opt(WRValues)}

CheckTrendReversal ==
    /\ al_pc = "trend_reversal"
    /\ \E found \in TrendReversalResults :
          alerts' = alerts \o found
    /\ al_pc' = "overbought_oversold"
    /\ UNCHANGED al_failed
    /\ AlFrame

\* _check_trend_reversal raises inside its try block
CheckTrendReversalFails ==
    /\ al_pc = "trend_reversal"
    /\ \E kept \in UNION {ReturnedOnFailure(found) : found \in TrendReversalResults} :
          alerts' = alerts \o kept
    /\ al_failed' = al_failed \cup {"trend_reversal"}
    /\ al_pc' = "overbought_oversold"
    /\ AlFrame

CheckOverboughtOversold ==
    /\ al_pc = "overbought_oversold"
    /\ \E found \in OverboughtOversoldResults :
          alerts' = alerts \o found
    /\ al_pc' = "divergence"
    /\ UNCHANGED al_failed
    /\ AlFrame

\* _check_overbought_oversold raises inside its try block
CheckOverboughtOversoldFails ==
    /\ al_pc = "overbought_oversold"
    /\ \E kept \in UNION {ReturnedOnFailure(found) : found \in OverboughtOversoldResults} :
          alerts' = alerts \o kept
    /\ al_failed' = al_failed \cup {"overbought_oversold"}
    /\ al_pc' = "divergence"
    /\ AlFrame

\* The RSI_14 window ends in the latest RSI_14 (None: the column is missing).
RsiWindows(latest_rsi) ==
    IF IsNa(latest_rsi) THEN {None}
    ELSE {Some(w) : w \in {v \in Windows(AlertRSIValues) : v.last = Val(latest_rsi)}}

DivergenceResults ==
    {_check_divergence(hist_len, close_pos, rsi, obv) :
        rsi \in RsiWindows(al_rsi), obv \in Opt(Windows(OBVValues))}

CheckDivergence ==
    /\ al_pc = "divergence"
    /\ \E found \in DivergenceResults :
          alerts' = alerts \o found
    /\ al_pc' = "breakout"
    /\ UNCHANGED al_failed
    /\ AlFrame

\* _check_divergence raises inside its try block
CheckDivergenceFails ==
    /\ al_pc = "divergence"
    /\ \E kept \in UNION {ReturnedOnFailure(found) : found \in DivergenceResults} :
          alerts' = alerts \o kept
    /\ al_failed' = al_failed \cup {"divergence"}
    /\ al_pc' = "breakout"
    /\ AlFrame

\* what _check_breakout returns over the rows of close, the two bands (null
\* together, lower <= upper), MACD and the previous MACD
BreakoutResults ==
    {_check_breakout(close, bands[1], bands[2], macd, prev_macd) :
        close \in OptPrices,
        bands \in {<<None, None>>}
                  \cup {<<Some(b[1]), Some(b[2])>> :
                           b \in {c \in Prices \X Prices : c[2] <= c[1]}},
        macd \in Opt(MACDValues), prev_macd \in Opt(MACDValues)}

CheckBreakout ==
    /\ al_pc = "breakout"
    /\ \E found \in BreakoutResults :
          alerts' = alerts \o found
    /\ al_pc' = "ma_alignment"
    /\ UNCHANGED al_failed
    /\ AlFrame

\* _check_breakout raises inside its try block
CheckBreakoutFails ==
    /\ al_pc = "breakout"
    /\ \E kept \in UNION {ReturnedOnFailure(found) : found \in BreakoutResults} :
          alerts' = alerts \o kept
    /\ al_failed' = al_failed \cup {"breakout"}
    /\ al_pc' = "ma_alignment"
    /\ AlFrame

\* what _check_ma_alignment returns over the rows of close and the three
\* moving averages
MaAlignmentResults ==
    {_check_ma_alignment(close, sma_5, sma_10, sma_20) :
        close \in OptPrices, sma_5 \in OptPrices,
        sma_10 \in OptPrices, sma_20 \in OptPrices}

CheckMaAlignment ==
    /\ al_pc = "ma_alignment"
    /\ \E found \in MaAlignmentResults :
          alerts' = alerts \o found
    /\ al_pc' = "signal_conflict"
    /\ UNCHANGED al_failed
    /\ AlFrame

\* _check_ma_alignment raises inside its try block
CheckMaAlignmentFails ==
    /\ al_pc = "ma_alignment"
    /\ \E kept \in UNION {ReturnedOnFailure(found) : found \in MaAlignmentResults} :
          alerts' = alerts \o kept
    /\ al_failed' = al_failed \cup {"ma_alignment"}
    /\ al_pc' = "signal_conflict"
    /\ AlFrame

\* "if signal_data:" skips the detector for None
SignalConflictStep(sd) == IF NotNa(sd) THEN _check_signal_conflict(Val(sd)) ELSE << >>

CheckSignalConflict ==
    /\ al_pc = "signal_conflict"
    /\ \E sd \in Opt(SuppliedBundles) :
          alerts' = alerts \o SignalConflictStep(sd)
    /\ al_pc' = "count"
    /\ UNCHANGED al_failed
    /\ AlFrame

\* _check_signal_conflict raises inside its try block
CheckSignalConflictFails ==
    /\ al_pc = "signal_conflict"
    /\ \E kept \in UNION {ReturnedOnFailure(_check_signal_conflict(sd)) : sd \in SuppliedBundles} :
          alerts' = alerts \o kept
    /\ al_failed' = al_failed \cup {"signal_conflict"}
    /\ al_pc' = "count"
    /\ AlFrame

\* count the levels, determine the overall risk, return
ReturnAlerts ==
    /\ al_pc = "count"
    /\ alert_data' = Some([alerts |-> alerts,
                           alert_count |-> AlertCount(alerts),
                           overall_risk |-> _determine_overall_risk(AlertCount(alerts))])
    /\ al_pc' = "done"
    /\ UNCHANGED <<hist_len, close_pos, al_rsi, al_kdj_j, al_cci, alerts, al_failed, NotAlert>>

\* a call in which no detector raises
AlNext ==
    \/ CheckTrendReversal
    \/ CheckOverboughtOversold
    \/ CheckDivergence
    \/ CheckBreakout
    \/ CheckMaAlignment
    \/ CheckSignalConflict
    \/ ReturnAlerts

\* a call on a 10-bar history with the overbought readings, in which any
\* detector may raise
AlFailInit ==
    /\ al_pc = "trend_reversal"
    /\ hist_len = 10
    /\ close_pos \in ClosePositions
    /\ al_rsi \in Opt({85})
    /\ al_kdj_j \in Opt({105})
    /\ al_cci = None
    /\ alerts = << >>
    /\ alert_data = None
    /\ al_failed = {}

AlFailNext ==
    \/ CheckTrendReversal
    \/ CheckTrendReversalFails
    \/ CheckOverboughtOversold
    \/ CheckOverboughtOversoldFails
    \/ CheckDivergence
    \/ CheckDivergenceFails
    \/ CheckBreakout
    \/ CheckBreakoutFails
    \/ CheckMaAlignment
    \/ CheckMaAlignmentFails
    \/ CheckSignalConflict
    \/ CheckSignalConflictFails
    \/ ReturnAlerts

\* =====================================================================
\* PricePredictor
\* =====================================================================
\* One call of predict_price(historical_data, latest, signal_data).  Prices
\* are integers in thirds of a cent, so that round(v, 2) is the nearest
\* multiple of 3 and never a tie.  Probabilities are in tenths of a percent
\* (33 is 330); the heuristic's scores are doubled (0.5 is 1).

\* historical_data: a DataFrame, a DataFrame without a close column, or a
\* plain list of rows
HistForms == {"frame", "frame_no_close", "not_frame"}

\* history lengths around the momentum (3) and support/resistance (20) tests
PredHistLens == {2, 19, 20}

\* latest close: negative, zero, off the cent grid, on the cent grid
CloseValues == {-3, 0, 14, 15}

\* 20-day low and high (the low rounds to 3, 12, 15; the high to 15, 24)
LowValues == {4, 13, 14}

HighValues == {16, 25}

\* Bollinger lower / upper band, null together
BandValues == {<<None, None>>} \cup
              {<<Some(l), Some(u)>> : l \in {8, 13}, u \in {17, 20}}

SMA5Values == {13, 17}

SMA10Values == {13, 26}

SMA20Values == {10, 16, 19}

SMA60Values == {7, 16}

\* ATR (even, so that 1.5 * atr is whole); None is NaN
AtrValues == {0, 2, 6}

\* signal_score of a supplied SignalBundle
SignalScores == {0, 20, 50, 80, 100}

\* SMA_5 / SMA_20 as the trend heuristic reads them
TrendSmaValues == {10, 13, 16, 19}

\* mean of the last three daily changes, in 1/10000 (0.005 is 50)
AvgChanges == {-60, 0, 50, 60}

TrendRSIValues == {30, 40, 60, 70}

prediction_days == <<1, 2, 3>>

EmptySupportResistance == [support |-> << >>, resistance |-> << >>]

FallbackProbability == [up |-> 330, down |-> 330, sideways |-> 340]

\* a value of the support_resistance variable: the dict, or a str
AsDict(d) == [kind |-> "dict", value |-> d]

AsStr(t) == [kind |-> "str", value |-> t]

_empty_prediction ==
    [predictions |-> << >>,
     support_resistance |-> AsDict(EmptySupportResistance),
     trend_probability |-> FallbackProbability,
     current_price |-> None]

\* Mutant: only a null or negative close is rejected.
BadClose_NegativeOnly(close) == IsNa(close) \/ Val(close) < 0

\* pd.isna(current_price) or current_price <= 0
BadClose(close) == IsNa(close) \/ Val(close) <= 0

\* round(v, 2)
Round2(v) == 3 * ((v + 1) \div 3)

RECURSIVE SortedList(_)
\* sorted(list(S))
SortedList(S) ==
    IF S = {} THEN << >>
    ELSE LET m == CHOOSE x \in S : \A y \in S : x <= y
         IN  <<m>> \o SortedList(S \ {m})

\* set([round(v, 2) for v in levels if v > 0]); a NaN level fails v > 0
RoundedPositive(levels) ==
    {Round2(Val(levels[i])) :
        i \in {j \in DOMAIN levels : NotNa(levels[j]) /\ Val(levels[j]) > 0}}

\* the candidates appended to support_levels
SupportCandidates(price, low, bb_lower, sma_20, sma_60, atr) ==
    <<Some(low)>>
    \o (IF NotNa(bb_lower) THEN <<bb_lower>> ELSE << >>)
    \o (IF NotNa(sma_20) /\ Val(sma_20) < price THEN <<sma_20>> ELSE << >>)
    \o (IF NotNa(sma_60) /\ Val(sma_60) < price THEN <<sma_60>> ELSE << >>)
    \o (IF NotNa(atr)
        THEN <<Some(price - (3 * Val(atr)) \div 2), Some(price - 3 * Val(atr))>>
        ELSE <<None, None>>)

\* the candidates appended to resistance_levels
ResistanceCandidates(price, high, bb_upper, sma_5, sma_10, sma_20, atr) ==
    <<Some(high)>>
    \o (IF NotNa(bb_upper) THEN <<bb_upper>> ELSE << >>)
    \o (IF NotNa(sma_5) /\ Val(sma_5) > price THEN <<sma_5>> ELSE << >>)
    \o (IF NotNa(sma_10) /\ Val(sma_10) > price THEN <<sma_10>> ELSE << >>)
    \o (IF NotNa(sma_20) /\ Val(sma_20) > price THEN <<sma_20>> ELSE << >>)
    \o (IF NotNa(atr)
        THEN <<Some(price + (3 * Val(atr)) \div 2), Some(price + 3 * Val(atr))>>
        ELSE <<None, None>>)

\* Mutant: the three lowest supports are kept.
KeepSupport_Lowest(levels) ==
    IF Len(levels) > 3 THEN SubSeq(levels, 1, 3) ELSE levels

\* support_levels[-3:] if len(support_levels) > 3 else support_levels
KeepSupport(levels) ==
    IF Len(levels) > 3 THEN SubSeq(levels, Len(levels) - 2, Len(levels)) ELSE levels

\* resistance_levels[:3] if len(resistance_levels) > 3 else resistance_levels
KeepResistance(levels) ==
    IF Len(levels) > 3 THEN SubSeq(levels, 1, 3) ELSE levels

\* the dict of the normal return: round, dedupe, sort, filter by side, keep 3
SupportResistanceOf(price, supports, resistances, atr) ==
    [support |->
        KeepSupport(SelectSeq(SortedList(RoundedPositive(supports)),
                              LAMBDA v : v < price)),
     resistance |->
        KeepResistance(SelectSeq(SortedList(RoundedPositive(resistances)),
                                 LAMBDA v : v > price)),
     atr |-> atr]

\* What _calculate_support_resistance_debug returns: a (result, debug_info)
\* tuple from its two early returns, a bare dict from its normal return and
\* from its except branch.
ReturnsTuple(result) == [form |-> "tuple", result |-> result]

ReturnsDict(result) == [form |-> "dict", result |-> result]

\* "result, _ = self._calculate_support_resistance_debug(...)": a tuple is
\* unpacked to its result, a two-key dict to its first key, and a three-key
\* dict raises ValueError (None here).
_calculate_support_resistance(ret) ==
    IF ret.form = "tuple" THEN Some(AsDict(ret.result))
    ELSE IF Cardinality(DOMAIN ret.result) = 2 THEN Some(AsStr("support"))
    ELSE None

\* Mutant: the percentage is cut to one decimal, not rounded.
Percent1_Truncated(score, total) == (1000 * score) \div total

\* round(score / total * 100, 1), in tenths of a percent
Percent1(score, total) == (2000 * score + total) \div (2 * total)

\* historical_data["close"] raises for a list and for a frame without close
CloseColumnFails(form) == form # "frame"

\* Mutant: the sideways total starts at nothing.
BaseSidewaysScore_Zero == 20 - 20

\* sideways_score = 10, doubled
BaseSidewaysScore == 20

\* The trend heuristic; scores are doubled.
_predict_trend_probability(form, len, signal, close, sma_5, sma_20, avg_change, rsi, kdj_k, kdj_d) ==
    IF len >= 3 /\ CloseColumnFails(form) THEN FallbackProbability
    ELSE
      LET sig_up == IF NotNa(signal) /\ Val(signal) > 50 THEN Val(signal) - 50 ELSE 0
          sig_down == IF NotNa(signal) /\ Val(signal) < 50 THEN 50 - Val(signal) ELSE 0
          sig_side == IF NotNa(signal) /\ Val(signal) = 50 THEN 1 ELSE 0
          ma_read == NotNa(sma_5) /\ NotNa(sma_20) /\ NotNa(close)
          ma_up == ma_read /\ Val(close) > Val(sma_5) /\ Val(sma_5) > Val(sma_20)
          ma_down == ma_read /\ ~ma_up
                     /\ Val(close) < Val(sma_5) /\ Val(sma_5) < Val(sma_20)
          ma_side == ma_read /\ ~ma_up /\ ~ma_down
          mom_read == len >= 3
          mom_up == mom_read /\ avg_change > 50
          mom_down == mom_read /\ ~mom_up /\ avg_change < -50
          mom_side == mom_read /\ ~mom_up /\ ~mom_down
          rsi_up == NotNa(rsi) /\ Val(rsi) < 40
          rsi_down == NotNa(rsi) /\ ~rsi_up /\ Val(rsi) > 60
          rsi_side == NotNa(rsi) /\ ~rsi_up /\ ~rsi_down
          kdj_read == NotNa(kdj_k) /\ NotNa(kdj_d)
          kdj_up == kdj_read /\ Val(kdj_k) < 20
          kdj_down == kdj_read /\ ~kdj_up /\ Val(kdj_k) > 80
          kdj_side == kdj_read /\ ~kdj_up /\ ~kdj_down
          W(b, w) == IF b THEN w ELSE 0
          up_score == sig_up + W(ma_up, 40) + W(mom_up, 30)
                      + W(rsi_up, 20) + W(kdj_up, 10)
          down_score == sig_down + W(ma_down, 40) + W(mom_down, 30)
                        + W(rsi_down, 20) + W(kdj_down, 10)
          sideways_score == BaseSidewaysScore + sig_side + W(ma_side, 40) + W(mom_side, 30)
                            + W(rsi_side, 20) + W(kdj_side, 10)
          total == up_score + down_score + sideways_score
      IN  IF total > 0
          THEN [up |-> Percent1(up_score, total),
                down |-> Percent1(down_score, total),
                sideways |-> Percent1(sideways_score, total)]
          ELSE [up |-> 333, down |-> 333, sideways |-> 333]

\* int(x) of a non-negative ratio
IntOf(q) == q.num \div q.den

\* One horizon prediction.  has_prices stands for high, low, target and
\* volatility: numbers from the normal return, None from the except branch.
\* The except branch is reached by historical_data["close"] (history of 20
\* and more rows) and by support_resistance.get on a str.
_predict_single_day(form, len, sr, tp) ==
    IF (len >= 20 /\ CloseColumnFails(form)) \/ sr.kind # "dict"
    THEN [has_prices |-> FALSE, trend |-> "sideways", confidence |-> "low"]
    ELSE
      LET up_prob == Rat(tp.up, 1000)
          down_prob == Rat(tp.down, 1000)
          sideways_prob == Rat(tp.sideways, 1000)
          trend == IF ~RatLT(up_prob, 50) /\ ~RatEQ(up_prob, 50) THEN "up"
                   ELSE IF ~RatLT(down_prob, 50) /\ ~RatEQ(down_prob, 50) THEN "down"
                   ELSE "sideways"
          confidence_score == IF trend = "up" THEN IntOf(up_prob)
                              ELSE IF trend = "down" THEN IntOf(down_prob)
                              ELSE IntOf(sideways_prob)
      IN  [has_prices |-> TRUE,
           trend |-> trend,
           confidence |-> IF confidence_score >= 60 THEN "high"
                          ELSE IF confidence_score >= 45 THEN "medium"
                          ELSE "low",
           confidence_score |-> confidence_score,
           trend_probability |-> tp]

\* ---- the call

PredInit ==
    /\ pred_pc = "read_close"
    /\ hist_form \in HistForms
    /\ pred_len \in PredHistLens
    /\ current_price \in Opt(CloseValues)
    /\ support_levels = << >>
    /\ resistance_levels = << >>
    /\ sr_return = None
    /\ support_resistance = None
    /\ trend_probability = None
    /\ predictions = << >>
    /\ prediction_data = None

PredFrame == UNCHANGED <<hist_form, pred_len, current_price, NotPredict>>

\* current_price = latest.get("close"); a bad close returns the empty bundle
ReadClose ==
    /\ pred_pc = "read_close"
    /\ IF BadClose(current_price)
       THEN /\ prediction_data' = Some(_empty_prediction)
            /\ pred_pc' = "done"
       ELSE /\ prediction_data' = prediction_data
            /\ pred_pc' = "support_resistance"
    /\ UNCHANGED <<support_levels, resistance_levels, sr_return,
                   support_resistance, trend_probability, predictions>>
    /\ PredFrame

\* _calculate_support_resistance_debug(historical_data, current_price)
CalcSupportResistanceDebug ==
    /\ pred_pc = "support_resistance"
    /\ IF hist_form = "not_frame" \/ pred_len < 20
       THEN /\ sr_return' = Some(ReturnsTuple(EmptySupportResistance))
            /\ UNCHANGED <<support_levels, resistance_levels>>
       ELSE IF CloseColumnFails(hist_form)
       THEN /\ sr_return' = Some(ReturnsDict(EmptySupportResistance))
            /\ UNCHANGED <<support_levels, resistance_levels>>
       ELSE \E low \in LowValues, high \in HighValues, bands \in BandValues,
               sma_5 \in Opt(SMA5Values), sma_10 \in Opt(SMA10Values),
               sma_20 \in Opt(SMA20Values), sma_60 \in Opt(SMA60Values),
               atr \in Opt(AtrValues) :
               LET price == Val(current_price)
                   supports == SupportCandidates(price, low, bands[1],
                                                 sma_20, sma_60, atr)
                   resistances == ResistanceCandidates(price, high, bands[2],
                                                       sma_5, sma_10, sma_20, atr)
               IN  /\ support_levels' = supports
                   /\ resistance_levels' = resistances
                   /\ sr_return' = Some(ReturnsDict(
                        SupportResistanceOf(price, supports, resistances, atr)))
    /\ pred_pc' = "unpack"
    /\ UNCHANGED <<support_resistance, trend_probability, predictions,
                   prediction_data>>
    /\ PredFrame

\* _calculate_support_resistance unpacks the return; its ValueError is caught
\* by predict_price, which returns the empty bundle.
UnpackSupportResistance ==
    /\ pred_pc = "unpack"
    /\ LET result == _calculate_support_resistance(Val(sr_return))
       IN  IF NotNa(result)
           THEN /\ support_resistance' = result
                /\ prediction_data' = prediction_data
                /\ pred_pc' = "trend_probability"
           ELSE /\ support_resistance' = support_resistance
                /\ prediction_data' = Some(_empty_prediction)
                /\ pred_pc' = "done"
    /\ UNCHANGED <<support_levels, resistance_levels, sr_return,
                   trend_probability, predictions>>
    /\ PredFrame

PredictTrendProbability ==
    /\ pred_pc = "trend_probability"
    /\ \E tp \in {_predict_trend_probability(hist_form, pred_len, signal,
                                             current_price, sma_5, sma_20,
                                             avg_change, rsi, kdj_k, kdj_d) :
                     signal \in Opt(SignalScores),
                     sma_5 \in Opt(TrendSmaValues), sma_20 \in Opt(TrendSmaValues),
                     avg_change \in AvgChanges, rsi \in Opt(TrendRSIValues),
                     kdj_k \in Opt(KDValues), kdj_d \in Opt({50})} :
          trend_probability' = Some(tp)
    /\ pred_pc' = "single_day"
    /\ UNCHANGED <<support_levels, resistance_levels, sr_return,
                   support_resistance, predictions, prediction_data>>
    /\ PredFrame

\* for day in self.prediction_days: predictions[...] = _predict_single_day(...)
PredictSingleDays ==
    /\ pred_pc = "single_day"
    /\ predictions' =
         [d \in DOMAIN prediction_days |->
            _predict_single_day(hist_form, pred_len, Val(support_resistance),
                                Val(trend_probability))]
    /\ pred_pc' = "return"
    /\ UNCHANGED <<support_levels, resistance_levels, sr_return,
                   support_resistance, trend_probability, prediction_data>>
    /\ PredFrame

ReturnPrediction ==
    /\ pred_pc = "return"
    /\ prediction_data' = Some([predictions |-> predictions,
                                support_resistance |-> Val(support_resistance),
                                trend_probability |-> Val(trend_probability),
                                current_price |-> current_price])
    /\ pred_pc' = "done"
    /\ UNCHANGED <<support_levels, resistance_levels, sr_return,
                   support_resistance, trend_probability, predictions>>
    /\ PredFrame

PredNext ==
    \/ ReadClose
    \/ CalcSupportResistanceDebug
    \/ UnpackSupportResistance
    \/ PredictTrendProbability
    \/ PredictSingleDays
    \/ ReturnPrediction

\* ---------------------------------------------------------------------
\* calculate_forward_indicators, calculate_minute_indicators
\* (src/core/indicators.py)
\* ---------------------------------------------------------------------
\* A DataFrame is a function from column names to columns; a column is the
\* sequence of its cells in row order.  A NaN cell is None.  RSI_14 is
\* computed cell by cell; the cells of the other derived columns are not
\* evaluated: each holds a non-null value tagged with the name of its formula.

\* rows of the input frame
FrameLen == 14

\* rolling(window=14)
RsiWindow == 14

RawColumns == {"open", "high", "low", "close", "volume"}

StartPrice == 20

\* Day-to-day changes of a close series: ups rises and downs falls of one
\* unit, in either order, then flat.
Deltas(ups, downs, first) ==
    [i \in 1..(FrameLen - 1) |->
        IF i > ups + downs THEN 0
        ELSE IF first = "up" THEN (IF i <= ups THEN 1 ELSE -1)
        ELSE (IF i <= downs THEN -1 ELSE 1)]

RECURSIVE SumTo(_, _)
SumTo(seq, k) == IF k = 0 THEN 0 ELSE seq[k] + SumTo(seq, k - 1)

CloseSeries ==
    {[i \in 1..FrameLen |-> StartPrice + SumTo(Deltas(ud[1], ud[2], first), i - 1)] :
        ud \in {p \in (0..(FrameLen - 1)) \X (0..(FrameLen - 1)) : p[1] + p[2] <= FrameLen - 1},
        first \in {"up", "down"}}

\* the raw columns a frame may come with
ColumnSets ==
    {{"close"}, {"close", "volume"}, {"open", "high", "low", "close"},
     {"open", "high", "low", "close", "volume"}, {"open", "high", "low"}}

RawCell(col, close, i) ==
    CASE col = "close" -> close[i]
      [] col = "open" -> close[i]
      [] col = "high" -> close[i] + 1
      [] col = "low" -> close[i] - 1
      [] col = "volume" -> 100 * i

\* the frames handed to the two functions: full frames and the empty frame
InputFrames ==
    {[col \in cols |-> [i \in 1..FrameLen |-> RawCell(col, close, i)]] :
        cols \in ColumnSets, close \in CloseSeries}
    \cup {[col \in cols |-> << >>] : cols \in ColumnSets}

Rows(df) == IF DOMAIN df = {} THEN 0 ELSE Len(df[CHOOSE col \in DOMAIN df : TRUE])

\* close.diff() of row i; the first row has no difference
Delta(close, i) == IF i = 1 THEN None ELSE Some(close[i] - close[i - 1])

\* delta.where(delta > 0, 0): a NaN difference is replaced by 0 as well
Gain(close, i) ==
    LET delta == Delta(close, i)
    IN  IF NotNa(delta) /\ Val(delta) > 0 THEN Val(delta) ELSE 0

\* -delta.where(delta < 0, 0)
Loss(close, i) ==
    LET delta == Delta(close, i)
    IN  IF NotNa(delta) /\ Val(delta) < 0 THEN 0 - Val(delta) ELSE 0

RECURSIVE WindowGain(_, _, _)
WindowGain(close, from, to) ==
    IF from > to THEN 0 ELSE Gain(close, to) + WindowGain(close, from, to - 1)

RECURSIVE WindowLoss(_, _, _)
WindowLoss(close, from, to) ==
    IF from > to THEN 0 ELSE Loss(close, to) + WindowLoss(close, from, to - 1)

\* float division of two non-negative numbers: x / 0 is inf, 0 / 0 is NaN
FloatDiv(a, b) ==
    IF b # 0 THEN [kind |-> "num", num |-> a, den |-> b]
    ELSE IF a # 0 THEN [kind |-> "inf", num |-> 1, den |-> 0]
    ELSE [kind |-> "nan", num |-> 0, den |-> 0]

\* rs = gain / loss; 100 - (100 / (1 + rs)).  gain and loss are the window
\* means, whose quotient is the quotient of the window sums.
Rsi(gain, loss) ==
    LET rs == FloatDiv(gain, loss)
    IN  IF rs.kind = "nan" THEN None
        ELSE IF rs.kind = "inf" THEN Some(Rat(100, 1))
        ELSE Some(Rat(100 * rs.num, rs.den + rs.num))

\* the RSI_14 column: NaN until the window is full
RsiColumn(close) ==
    [i \in 1..Len(close) |->
        IF i < RsiWindow THEN None
        ELSE Rsi(WindowGain(close, i - RsiWindow + 1, i),
                 WindowLoss(close, i - RsiWindow + 1, i))]

\* a derived column whose cells are not evaluated
Derived(df, formula) == [i \in 1..Rows(df) |-> Some(formula)]

\* Mutant: the frame is turned newest-first before the assignment.
WithColumn_Reversed(df, col, cells) ==
    [c \in DOMAIN df \cup {col} |->
        IF c = col THEN cells ELSE [i \in 1..Len(df[c]) |-> df[c][Len(df[c]) + 1 - i]]]

\* df[col] = cells
WithColumn(df, col, cells) ==
    [c \in DOMAIN df \cup {col} |-> IF c = col THEN cells ELSE df[c]]

\* the column assignments of calculate_forward_indicators, in source order
ForwardAssignments(df) ==
    <<  <<"RSI_14", RsiColumn(df["close"])>>,
        <<"KDJ_K", Derived(df, "KDJ_K")>>,
        <<"KDJ_D", Derived(df, "KDJ_D")>>,
        <<"KDJ_J", Derived(df, "KDJ_J")>>,
        <<"CCI_14", Derived(df, "CCI_14")>>,
        <<"OBV", IF "volume" \in DOMAIN df THEN Derived(df, "OBV")
                 ELSE [i \in 1..Rows(df) |-> None]>>,
        <<"WR1", Derived(df, "WR1")>>,
        <<"WR2", Derived(df, "WR2")>>  >>

\* the column assignments of calculate_minute_indicators, in source order
MinuteAssignments(df, period) ==
    LET high_low == {"high", "low"} \subseteq DOMAIN df
    IN  <<  <<"SMA_5", Derived(df, "SMA_5")>>,
            <<"SMA_10", Derived(df, "SMA_10")>>,
            <<"SMA_20", Derived(df, "SMA_20")>>,
            <<"MACD_5_10_5", Derived(df, "MACD_5_10_5")>>,
            <<"MACDs_5_10_5", Derived(df, "MACDs_5_10_5")>>,
            <<"MACDh_5_10_5", Derived(df, "MACDh_5_10_5")>>,
            <<"BBM_10_2.0", Derived(df, "BBM_10_2.0")>>,
            <<"BBU_10_2.0", Derived(df, "BBU_10_2.0")>>,
            <<"BBL_10_2.0", Derived(df, "BBL_10_2.0")>>,
            <<"RSI_14", RsiColumn(df["close"])>>  >>
        \o (IF high_low
            THEN <<  <<"KDJ_K", Derived(df, "KDJ_K")>>,
                     <<"KDJ_D", Derived(df, "KDJ_D")>>,
                     <<"KDJ_J", Derived(df, "KDJ_J")>>,
                     <<"CCI_14", Derived(df, "CCI_14")>>,
                     <<"ATR_14", Derived(df, "ATR_14")>>  >>
            ELSE << >>)
        \o <<  <<"period_type", Derived(df, period)>>  >>

\* the frame after the first k assignments
RECURSIVE Assigned(_, _, _)
Assigned(df, assignments, k) ==
    IF k = 0 THEN df
    ELSE WithColumn(Assigned(df, assignments, k - 1), assignments[k][1], assignments[k][2])

IndInit ==
    /\ ind_pc \in {"forward", "minute"}
    /\ ind_df \in InputFrames

\* calculate_forward_indicators runs to "return df"
CalculateForwardIndicators ==
    /\ ind_pc = "forward"
    /\ "close" \in DOMAIN ind_df
    /\ ind_df' = Assigned(ind_df, ForwardAssignments(ind_df), Len(ForwardAssignments(ind_df)))
    /\ ind_pc' = "done"
    /\ UNCHANGED NotIndicators

\* calculate_forward_indicators raises inside its try block: df["close"] of a
\* frame without close, or a later statement after k assignments
CalculateForwardIndicatorsFails ==
    /\ ind_pc = "forward"
    /\ IF "close" \notin DOMAIN ind_df
       THEN ind_df' = ind_df
       ELSE \E k \in 0..(Len(ForwardAssignments(ind_df)) - 1) :
               ind_df' = Assigned(ind_df, ForwardAssignments(ind_df), k)
    /\ ind_pc' = "done"
    /\ UNCHANGED NotIndicators

\* the two early returns of calculate_minute_indicators
MinuteEarlyReturn(df) == Rows(df) = 0 \/ "close" \notin DOMAIN df

\* calculate_minute_indicators runs to a return
CalculateMinuteIndicators ==
    /\ ind_pc = "minute"
    /\ \E period \in {"60", "30"} :
          ind_df' = IF MinuteEarlyReturn(ind_df) THEN ind_df
                    ELSE Assigned(ind_df, MinuteAssignments(ind_df, period),
                                  Len(MinuteAssignments(ind_df, period)))
    /\ ind_pc' = "done"
    /\ UNCHANGED NotIndicators

\* calculate_minute_indicators raises inside its try block after k assignments
CalculateMinuteIndicatorsFails ==
    /\ ind_pc = "minute"
    /\ ~MinuteEarlyReturn(ind_df)
    /\ \E k \in 0..(Len(MinuteAssignments(ind_df, "60")) - 1) :
          ind_df' = Assigned(ind_df, MinuteAssignments(ind_df, "60"), k)
    /\ ind_pc' = "done"
    /\ UNCHANGED NotIndicators

IndNext ==
    \/ CalculateForwardIndicators
    \/ CalculateForwardIndicatorsFails
    \/ CalculateMinuteIndicators
    \/ CalculateMinuteIndicatorsFails

\* ---------------------------------------------------------------------
\* The narrators analyze_* (src/core/indicators.py) as run by analysis.py
\* ---------------------------------------------------------------------

\* the call order of analysis.py:516-526
narrators == <<"analyze_ma", "analyze_macd", "analyze_bollinger", "analyze_rsi", "analyze_kdj", "analyze_cci", "analyze_obv", "analyze_williams">>

\* Messages a narrator may have appended before its try block raises.
MaxPartial == 1

\* How many messages a narrator appends when its indicator data is present.
NoteCounts ==
    [analyze_ma |-> {11}, analyze_macd |-> {3}, analyze_bollinger |-> {0, 1, 2},
     analyze_rsi |-> {1, 2}, analyze_kdj |-> {0, 1, 2, 3, 4}, analyze_cci |-> {1, 2},
     analyze_obv |-> {0, 1, 2}, analyze_williams |-> {0, 1, 2, 3, 4, 5}]

Message(by, kind) == [by |-> by, kind |-> kind]

\* k analysis messages of one narrator
Notes(by, k) == [i \in 1..k |-> Message(by, "note")]

\* the single message of the "data missing" branch
MissingData(by) == <<Message(by, "missing")>>

\* the message of the except branch
Degraded(by) == Message(by, "degraded")

\* Mutant: the except branch replaces the list by its message.
AfterFailure_Reset(list, by, k) == <<Degraded(by)>>

\* the list after a narrator raised having appended k messages
AfterFailure(list, by, k) == (list \o Notes(by, k)) \o <<Degraded(by)>>

\* what the narrator leaves in the list when its try block completes
Completed(by) == {MissingData(by)} \cup {Notes(by, k) : k \in NoteCounts[by]}

NextNarrator(by) ==
    LET i == CHOOSE j \in DOMAIN narrators : narrators[j] = by
    IN  IF i = Len(narrators) THEN "done" ELSE narrators[i + 1]

NarrInit ==
    /\ narr_pc = narrators[1]
    /\ trend_signals = << >>
    /\ narr_failed = {}

\* a narrator whose try block runs to its end
NarratorCompletes ==
    /\ narr_pc \notin {"idle", "done"}
    /\ \E appended \in Completed(narr_pc) :
          trend_signals' = trend_signals \o appended
    /\ narr_pc' = NextNarrator(narr_pc)
    /\ UNCHANGED <<narr_failed, NotNarrators>>

\* a narrator whose try block raises after k appended messages
NarratorFails ==
    /\ narr_pc \notin {"idle", "done"}
    /\ \E k \in 0..MaxPartial :
          trend_signals' = AfterFailure(trend_signals, narr_pc, k)
    /\ narr_failed' = narr_failed \cup {narr_pc}
    /\ narr_pc' = NextNarrator(narr_pc)
    /\ UNCHANGED NotNarrators

NarrNext == NarratorCompletes \/ NarratorFails

\* ---------------------------------------------------------------------
\* judge_trend_status (src/core/indicators.py)
\* ---------------------------------------------------------------------

\* Prices of the latest row, in units where one step is 0.5 % of 200.
TrendCloseValues == {198, 199, 200, 201, 202}

TrendSma20Values == {199, 200, 201}

TrendSma60Values == {198, 202}

TrendMidValues == {200, 201}

\* Mutant: the band test also accepts a distance of exactly 0.5 %.
NearMiddleBand_Inclusive(close, middle_bb) ==
    LET diff == IF close >= middle_bb THEN close - middle_bb ELSE middle_bb - close
    IN  200 * diff <= middle_bb

\* abs(close - middle_bb) / middle_bb < 0.005, for a positive middle band
NearMiddleBand(close, middle_bb) ==
    LET diff == IF close >= middle_bb THEN close - middle_bb ELSE middle_bb - close
    IN  200 * diff < middle_bb

\* Mutant: the status of a row without close comes from the moving average.
AnomalyStatus_FromAverage(sma_20) == IF NotNa(sma_20) THEN "downtrend" ELSE "insufficient_ma"

\* the status returned for a row whose close is null
AnomalyStatus(sma_20) == "data_anomaly"

\* the status from close against SMA_20
AverageStatus(close, sma_20) == IF close > sma_20 THEN "uptrend" ELSE "downtrend"

judge_trend_status(close, sma_20, middle_bb) ==
    IF IsNa(close)
    THEN AnomalyStatus(sma_20)
    ELSE LET by_average == IF NotNa(sma_20)
                           THEN AverageStatus(Val(close), Val(sma_20))
                           ELSE "insufficient_ma"
         IN  IF NotNa(middle_bb) /\ NearMiddleBand(Val(close), Val(middle_bb))
             THEN "oscillating"
             ELSE by_average

TrInit ==
    /\ trend_pc = "judge"
    /\ tr_close \in Opt(TrendCloseValues)
    /\ tr_sma_20 \in Opt(TrendSma20Values)
    /\ tr_sma_60 \in Opt(TrendSma60Values)
    /\ tr_middle_bb \in Opt(TrendMidValues)
    /\ trend_status = None

\* the call of judge_trend_status on the latest row
JudgeTrendStatus ==
    /\ trend_pc = "judge"
    /\ trend_status' = Some(judge_trend_status(tr_close, tr_sma_20, tr_middle_bb))
    /\ trend_pc' = "done"
    /\ UNCHANGED <<tr_close, tr_sma_20, tr_sma_60, tr_middle_bb, NotTrend>>

TrNext == JudgeTrendStatus

\* ---------------------------------------------------------------------
\* The per-symbol pipeline (src/core/analysis.py)
\* ---------------------------------------------------------------------

\* symbols in core_pool
PoolSize == 2

\* What get_daily_history_func gives for a symbol: a timeout, an exception,
\* None, an empty frame, a frame without close, one of fewer than 61 bars,
\* one whose close is all null, or a frame the analysis accepts.
FetchOutcomes == {"timeout", "error", "none", "empty", "no_close", "short", "all_null", "frame"}

\* latest rows <<close, SMA_20, BBM_20_2.0>> of an accepted frame
LatestRows == {<<None, None, None>>, <<Some(202), Some(201), Some(200)>>, <<Some(200), None, None>>}

\* outcomes of get_llm_score_and_analysis under wait_for
LlmOutcomes == {"ok", "timeout", "error"}

SymbolCases ==
    [fetch : FetchOutcomes \ {"frame"}, latest : {<<None, None, None>>},
     price : Opt({1}), llm : {"ok"}]
    \cup [fetch : {"frame"}, latest : LatestRows, price : Opt({1}), llm : LlmOutcomes]

\* the entry the fetch loop appends for a symbol, None where it continues
DailyTrend(code, case) ==
    IF case.fetch # "frame" THEN None
    ELSE Some([code |-> code,
               status |-> judge_trend_status(case.latest[1], case.latest[2], case.latest[3])])

\* Mutant: a symbol that is skipped ends the fetch loop.
FetchLoopAfter_BreakOnSkip(i, trend) == IF IsNa(trend) THEN PoolSize + 1 ELSE i + 1

\* the fetch loop goes on to the next symbol after an append and after a continue
FetchLoopAfter(i, trend) == i + 1

\* daily_trends_map.get(code, {"status": unknown})["status"]
DailyTrendStatus(report, code) ==
    IF \E k \in DOMAIN report : report[k].code = code
    THEN report[CHOOSE k \in DOMAIN report : report[k].code = code].status
    ELSE "unknown"

\* the keyword test on the status: "数据不足" is part of the insufficient-MA
\* status, "数据状态未知" is the status of a symbol without daily trend
StatusSkipped(st) == st \in {"insufficient_ma", "unknown"}

\* whether the report loop appends the symbol
Reported(report, code, case) ==
    /\ ~StatusSkipped(DailyTrendStatus(report, code))
    /\ NotNa(case.price)
    /\ case.llm = "ok"

PipeInit ==
    /\ pl_pc = "fetch"
    /\ pool \in [1..PoolSize -> SymbolCases]
    /\ pl_i = 1
    /\ analysis_report = << >>
    /\ final_report = << >>
    /\ budget_exhausted = FALSE
    /\ pl_returned = None

\* one iteration of the loop of _get_daily_trends_generic
FetchSymbol ==
    /\ pl_pc = "fetch"
    /\ LET trend == DailyTrend(pl_i, pool[pl_i])
           next == FetchLoopAfter(pl_i, trend)
       IN  /\ analysis_report' = IF NotNa(trend) THEN Append(analysis_report, Val(trend))
                                 ELSE analysis_report
           /\ IF next > PoolSize
              THEN pl_pc' = "report" /\ pl_i' = 1
              ELSE pl_pc' = "fetch" /\ pl_i' = next
    /\ UNCHANGED <<pool, final_report, budget_exhausted, pl_returned, NotPipeline>>

\* elapsed_time > MAX_DATA_FETCH_TIME: the fetch loop breaks
FetchBudgetExhausted ==
    /\ pl_pc = "fetch"
    /\ pl_pc' = "report"
    /\ pl_i' = 1
    /\ budget_exhausted' = TRUE
    /\ UNCHANGED <<pool, analysis_report, final_report, pl_returned, NotPipeline>>

\* wait_for(gather(...), timeout=MAX_ANALYSIS_TIME) times out: return []
AnalysisTimeout ==
    /\ pl_pc = "fetch"
    /\ pl_pc' = "done"
    /\ budget_exhausted' = TRUE
    /\ pl_returned' = Some(<< >>)
    /\ UNCHANGED <<pool, pl_i, analysis_report, final_report, NotPipeline>>

\* one iteration of the loop over intraday_signals
ReportSymbol ==
    /\ pl_pc = "report"
    /\ final_report' = IF Reported(analysis_report, pl_i, pool[pl_i])
                       THEN Append(final_report, pl_i)
                       ELSE final_report
    /\ IF pl_i = PoolSize
       THEN pl_pc' = "sort" /\ pl_i' = pl_i
       ELSE pl_pc' = "report" /\ pl_i' = pl_i + 1
    /\ UNCHANGED <<pool, analysis_report, budget_exhausted, pl_returned, NotPipeline>>

\* elapsed_time > MAX_ANALYSIS_TIME before a symbol, or elapsed_time + delay
\* after one: the report loop breaks
ReportBudgetExhausted ==
    /\ pl_pc = "report"
    /\ pl_pc' = "sort"
    /\ budget_exhausted' = TRUE
    /\ UNCHANGED <<pool, pl_i, analysis_report, final_report, pl_returned, NotPipeline>>

\* sorted(final_report, key=..., reverse=True): no entry has "ai_score", every
\* key is 0 and the stable sort keeps the order
ReturnReport ==
    /\ pl_pc = "sort"
    /\ pl_returned' = Some(final_report)
    /\ pl_pc' = "done"
    /\ UNCHANGED <<pool, pl_i, analysis_report, final_report, budget_exhausted, NotPipeline>>

PipeNext ==
    \/ FetchSymbol
    \/ FetchBudgetExhausted
    \/ AnalysisTimeout
    \/ ReportSymbol
    \/ ReportBudgetExhausted
    \/ ReturnReport

\* ---------------------------------------------------------------------
\* Single detector calls (src/core/alert_system.py)
\* ---------------------------------------------------------------------

\* bundles a caller builds with a confidence on either side of the threshold
ThresholdBundles ==
    {[forward_indicators |-> SideIndicators(0, 0), confidence |-> Rat(c, 1)] : c \in {29, 30}}

DetectorBundles == SuppliedBundles \cup ThresholdBundles

DetInit ==
    /\ det_pc = "ma_alignment"
    /\ det_close \in OptPrices
    /\ det_sma_5 \in OptPrices
    /\ det_sma_10 \in OptPrices
    /\ det_sma_20 \in OptPrices
    /\ det_signal_data \in Opt(DetectorBundles)
    /\ det_ma_alerts = << >>
    /\ det_conflict_alerts = << >>

\* alerts.extend(self._check_ma_alignment(historical_data, latest))
CallMaAlignment ==
    /\ det_pc = "ma_alignment"
    /\ det_ma_alerts' = _check_ma_alignment(det_close, det_sma_5, det_sma_10, det_sma_20)
    /\ det_pc' = "signal_conflict"
    /\ UNCHANGED <<det_close, det_sma_5, det_sma_10, det_sma_20, det_signal_data, det_conflict_alerts, NotDetectors>>

\* if signal_data: alerts.extend(self._check_signal_conflict(signal_data))
CallSignalConflict ==
    /\ det_pc = "signal_conflict"
    /\ det_conflict_alerts' = SignalConflictStep(det_signal_data)
    /\ det_pc' = "done"
    /\ UNCHANGED <<det_close, det_sma_5, det_sma_10, det_sma_20, det_signal_data, det_ma_alerts, NotDetectors>>

DetNext ==
    \/ CallMaAlignment
    \/ CallSignalConflict

\* ---------------------------------------------------------------------
\* One horizon prediction with its prices (src/core/predictor.py)
\* ---------------------------------------------------------------------
\* Prices are in cents, the daily volatility in percent, probabilities in
\* tenths of a percent.  Intermediate prices are exact fractions of a cent.

RECURSIVE Gcd(_, _)
Gcd(a, b) == IF b = 0 THEN a ELSE Gcd(b, a % b)

Abs(n) == IF n < 0 THEN -n ELSE n

\* the fraction in lowest terms, with a positive denominator
Reduced(q) ==
    LET g == Gcd(Abs(q.num), q.den)
    IN  IF g = 0 THEN q ELSE [num |-> q.num \div g, den |-> q.den \div g]

RatMul(a, b) == Reduced([num |-> a.num * b.num, den |-> a.den * b.den])

RatLess(a, b) == a.num * b.den < b.num * a.den

RatMin(a, b) == IF RatLess(b, a) THEN b ELSE a

RatMax(a, b) == IF RatLess(a, b) THEN b ELSE a

\* round(v, 2) of a price: the nearest cent
RoundCents(q) == (2 * q.num + q.den) \div (2 * q.den)

\* latest.get("close")
SdPrices == {100}

\* daily_volatility: the 20-day std of pct_change, 0.02 under 20 rows
SdVolatilities == {0, 2, 5}

\* support levels below and resistance levels above the price, ascending,
\* as _calculate_support_resistance_debug builds them
SdSupports == {SortedList(S) : S \in SUBSET {90, 97, 99}}

SdResistances == {SortedList(S) : S \in SUBSET {101, 103, 110}}

SdProbabilities ==
    {FallbackProbability,
     [up |-> 700, down |-> 100, sideways |-> 200],
     [up |-> 100, down |-> 700, sideways |-> 200],
     [up |-> 900, down |-> 0, sideways |-> 100],
     [up |-> 0, down |-> 900, sideways |-> 100]}

\* np.sqrt(day), in hundredths
SqrtDay(day) == <<100, 141, 173>>[day]

\* current_price * (1 + (up_prob - down_prob) * daily_volatility * day)
TargetPrice(price, tp, vol, day) ==
    Reduced([num |-> price * (100000 + (tp.up - tp.down) * vol * day), den |-> 100000])

\* target_price * (1 + 1.5 * daily_volatility * sqrt(day))
BandHigh(target, vol, day) ==
    RatMul(target, [num |-> 20000 + 3 * vol * SqrtDay(day), den |-> 20000])

\* target_price * (1 - 1.5 * daily_volatility * sqrt(day))
BandLow(target, vol, day) ==
    RatMul(target, [num |-> 20000 - 3 * vol * SqrtDay(day), den |-> 20000])

\* Mutant: the farthest resistance limits the high.
ClampHigh_Farthest(high, resistance) ==
    IF resistance # << >> /\ RatLess(Rat(resistance[Len(resistance)], 1), high)
    THEN RatMin(high, Reduced([num |-> 101 * resistance[Len(resistance)], den |-> 100]))
    ELSE high

\* if resistance_levels and high_price > resistance_levels[0]: min(...)
ClampHigh(high, resistance) ==
    IF resistance # << >> /\ RatLess(Rat(resistance[1], 1), high)
    THEN RatMin(high, Reduced([num |-> 101 * resistance[1], den |-> 100]))
    ELSE high

\* if support_levels and low_price < support_levels[-1]: max(...)
ClampLow(low, support) ==
    IF support # << >> /\ RatLess(low, Rat(support[Len(support)], 1))
    THEN RatMax(low, Reduced([num |-> 99 * support[Len(support)], den |-> 100]))
    ELSE low

\* high, low and target of the returned prediction
PredictedPrices(price, tp, vol, day, support, resistance) ==
    LET target == TargetPrice(price, tp, vol, day)
    IN  [high |-> RoundCents(ClampHigh(BandHigh(target, vol, day), resistance)),
         low |-> RoundCents(ClampLow(BandLow(target, vol, day), support)),
         target |-> RoundCents(target)]

SdInit ==
    /\ sd_pc = "call"
    /\ sd_price \in SdPrices
    /\ sd_volatility \in SdVolatilities
    /\ sd_day \in DOMAIN prediction_days
    /\ sd_support \in SdSupports
    /\ sd_resistance \in SdResistances
    /\ sd_tp \in SdProbabilities
    /\ sd_prediction = None

\* _predict_single_day on a frame with a close column
PredictSingleDay ==
    /\ sd_pc = "call"
    /\ sd_prediction' = Some(PredictedPrices(sd_price, sd_tp, sd_volatility, prediction_days[sd_day], sd_support, sd_resistance))
    /\ sd_pc' = "done"
    /\ UNCHANGED <<sd_price, sd_volatility, sd_day, sd_support, sd_resistance, sd_tp, NotSingleDay>>

SdNext ==
    \/ PredictSingleDay

\* ---------------------------------------------------------------------
\* The columns the daily pipeline writes and the columns read from the
\* latest row (analysis.py, indicators.py, signal_system.py, alert_system.py)
\* ---------------------------------------------------------------------

\* the frame after the field renaming: close, and any of high, low, volume
\* and the provider's volume column ("volume_cn" for its Chinese name)
DailyRawFrames == {{"close"} \cup S : S \in SUBSET {"high", "low", "volume", "volume_cn"}}

\* indicator columns whose latest value may be NaN on a 61-bar frame
NullableColumns == {"RSI_14", "CCI_14", "KDJ_K"}

\* result["SMA_5"] = ... to result["BBL_20_2.0"] = ...
DailyColumns ==
    {"SMA_5", "SMA_10", "SMA_20", "MACD_12_26_9", "MACDs_12_26_9", "MACDh_12_26_9",
     "BBM_20_2.0", "BBU_20_2.0", "BBL_20_2.0"}

\* the columns calculate_forward_indicators assigns
ForwardColumns ==
    LET assignments == ForwardAssignments([c \in {"close"} |-> <<Some(StartPrice)>>])
    IN  {assignments[k][1] : k \in DOMAIN assignments}

\* latest.get(...) of each judge of SignalSystem
JudgeReads ==
    [RSI |-> {"RSI_12"},
     KDJ |-> {"KDJ_K", "KDJ_J"},
     MACD |-> {"MACD_12_26_9", "MACDs_12_26_9"},
     MA |-> {"close", "SMA_5", "SMA_10", "SMA_20"},
     BOLLINGER |-> {"close", "BBU_20_2.0", "BBL_20_2.0", "BBM_20_2.0"},
     CCI |-> {"CCI_14"},
     OBV |-> {"OBV"},
     WILLIAMS |-> {"WR_14"}]

\* the reads whose null value makes the judge return None
JudgeNeeds ==
    [RSI |-> {"RSI_12"},
     KDJ |-> {"KDJ_K", "KDJ_J"},
     MACD |-> {"MACD_12_26_9", "MACDs_12_26_9"},
     MA |-> {"close", "SMA_20"},
     BOLLINGER |-> {"close", "BBL_20_2.0"},
     CCI |-> {"CCI_14"},
     OBV |-> {"OBV"},
     WILLIAMS |-> {"WR_14"}]

\* latest.get(...) of the detectors of AlertSystem
DetectorReads ==
    {"SMA_5", "SMA_10", "RSI_14", "KDJ_J", "CCI_14", "WR_14", "close",
     "BBU_20_2.0", "BBL_20_2.0", "MACD_12_26_9", "SMA_20"}

\* latest.get of a column the frame lacks gives None, which pd.isna accepts
JudgeAvailability(name, frame, nulls) ==
    IF ~(JudgeNeeds[name] \subseteq frame) THEN "no_column"
    ELSE IF JudgeNeeds[name] \cap nulls # {} THEN "null"
    ELSE "available"

ColInit ==
    /\ col_pc = "daily"
    /\ col_frame \in DailyRawFrames
    /\ col_null \in SUBSET NullableColumns
    /\ col_judges = << >>
    /\ col_alert_missing = {}

\* the moving averages, MACD and Bollinger columns
WriteDailyIndicators ==
    /\ col_pc = "daily"
    /\ col_frame' = col_frame \cup DailyColumns
    /\ col_pc' = "forward"
    /\ UNCHANGED <<col_null, col_judges, col_alert_missing, NotColumns>>

\* result = calculate_forward_indicators(result); OBV is None without a
\* volume column, KDJ_J is null with KDJ_K
ForwardIndicatorsOnFrame ==
    /\ col_pc = "forward"
    /\ col_frame' = col_frame \cup ForwardColumns
    /\ col_null' = col_null
                   \cup (IF {"volume", "volume_cn"} \cap col_frame = {} THEN {"OBV"} ELSE {})
                   \cup (IF "KDJ_K" \in col_null THEN {"KDJ_D", "KDJ_J"} ELSE {})
    /\ col_pc' = "volume"
    /\ UNCHANGED <<col_judges, col_alert_missing, NotColumns>>

\* the volume column is added from the provider's column
AddVolumeColumn ==
    /\ col_pc = "volume"
    /\ col_frame' = IF "volume" \notin col_frame /\ "volume_cn" \in col_frame
                    THEN col_frame \cup {"volume"} ELSE col_frame
    /\ col_pc' = "judges"
    /\ UNCHANGED <<col_null, col_judges, col_alert_missing, NotColumns>>

\* the eight judges read the latest row
JudgesReadLatest ==
    /\ col_pc = "judges"
    /\ col_judges' = [name \in Judges |-> JudgeAvailability(name, col_frame, col_null)]
    /\ col_pc' = "detectors"
    /\ UNCHANGED <<col_frame, col_null, col_alert_missing, NotColumns>>

\* the detectors read the latest row
DetectorsReadLatest ==
    /\ col_pc = "detectors"
    /\ col_alert_missing' = DetectorReads \ col_frame
    /\ col_pc' = "done"
    /\ UNCHANGED <<col_frame, col_null, col_judges, NotColumns>>

ColNext ==
    \/ WriteDailyIndicators
    \/ ForwardIndicatorsOnFrame
    \/ AddVolumeColumn
    \/ JudgesReadLatest
    \/ DetectorsReadLatest

\* ---------------------------------------------------------------------
\* PricePredictorDebug against PricePredictor (src/core/predictor.py)
\* ---------------------------------------------------------------------
\* A field of the latest row is a number, NaN, or absent from the row
\* (latest.get gives None).

Present(v) == [kind |-> "value", v |-> v]

Nan == [kind |-> "nan", v |-> 0]

Absent == [kind |-> "absent", v |-> 0]

\* the field as pd.notna sees it
AsOpt(f) == IF f.kind = "value" THEN Some(f.v) ELSE None

\* "x is not None"
IsNotNone(f) == f.kind # "absent"

\* a comparison with NaN is false
FieldLess(f, k) == f.kind = "value" /\ f.v < k

FieldGreater(f, k) == f.kind = "value" /\ f.v > k

CmpRows ==
    [SMA_5 : {Absent, Nan, Present(13)},
     SMA_20 : {Absent, Nan, Present(10), Present(16)},
     RSI_14 : {Absent, Nan, Present(30), Present(50)},
     KDJ_K : {Absent, Nan, Present(10)},
     KDJ_D : {Nan, Present(50)}]

\* the levels of a frame of 20 and more rows: 20-day low and high around the
\* price, no Bollinger columns, SMA_5 and SMA_20 of the row
CmpSupportResistance(price, row) ==
    SupportResistanceOf(price,
        SupportCandidates(price, 4, None, AsOpt(row.SMA_20), None, Some(2)),
        ResistanceCandidates(price, 25, None, AsOpt(row.SMA_5), None, AsOpt(row.SMA_20), Some(2)),
        Some(2))

\* PricePredictor.predict_price on a frame with a close column, no signal_data
BasePredictPrice(len, close, row, avg_change) ==
    IF BadClose(close) THEN _empty_prediction
    ELSE
      LET ret == IF len < 20 THEN ReturnsTuple(EmptySupportResistance)
                 ELSE ReturnsDict(CmpSupportResistance(Val(close), row))
          sr == _calculate_support_resistance(ret)
          tp == _predict_trend_probability("frame", len, None, close, AsOpt(row.SMA_5), AsOpt(row.SMA_20),
                                           avg_change, AsOpt(row.RSI_14), AsOpt(row.KDJ_K), AsOpt(row.KDJ_D))
      IN  IF IsNa(sr) THEN _empty_prediction
          ELSE [predictions |-> [d \in DOMAIN prediction_days |-> _predict_single_day("frame", len, Val(sr), tp)],
                support_resistance |-> Val(sr),
                trend_probability |-> tp,
                current_price |-> close]

\* PricePredictorDebug._predict_trend_probability_debug, no signal_data: the
\* fields are tested with "is not None", scores are doubled
_predict_trend_probability_debug(len, close, row, avg_change) ==
    LET ma_read == IsNotNone(row.SMA_5) /\ IsNotNone(row.SMA_20) /\ NotNa(close)
        ma_up == ma_read /\ FieldLess(row.SMA_5, Val(close))
                 /\ row.SMA_20.kind = "value" /\ FieldGreater(row.SMA_5, row.SMA_20.v)
        ma_down == ma_read /\ ~ma_up /\ FieldGreater(row.SMA_5, Val(close))
                   /\ row.SMA_20.kind = "value" /\ FieldLess(row.SMA_5, row.SMA_20.v)
        ma_side == ma_read /\ ~ma_up /\ ~ma_down
        mom_read == len >= 3
        mom_up == mom_read /\ avg_change > 50
        mom_down == mom_read /\ ~mom_up /\ avg_change < -50
        mom_side == mom_read /\ ~mom_up /\ ~mom_down
        rsi_read == IsNotNone(row.RSI_14)
        rsi_up == rsi_read /\ FieldLess(row.RSI_14, 40)
        rsi_down == rsi_read /\ ~rsi_up /\ FieldGreater(row.RSI_14, 60)
        rsi_side == rsi_read /\ ~rsi_up /\ ~rsi_down
        kdj_read == IsNotNone(row.KDJ_K) /\ IsNotNone(row.KDJ_D)
        kdj_up == kdj_read /\ FieldLess(row.KDJ_K, 20)
        kdj_down == kdj_read /\ ~kdj_up /\ FieldGreater(row.KDJ_K, 80)
        kdj_side == kdj_read /\ ~kdj_up /\ ~kdj_down
        W(b, w) == IF b THEN w ELSE 0
        up_score == W(ma_up, 40) + W(mom_up, 30) + W(rsi_up, 20) + W(kdj_up, 10)
        down_score == W(ma_down, 40) + W(mom_down, 30) + W(rsi_down, 20) + W(kdj_down, 10)
        sideways_score == BaseSidewaysScore + W(ma_side, 40) + W(mom_side, 30)
                          + W(rsi_side, 20) + W(kdj_side, 10)
        total == up_score + down_score + sideways_score
    IN  IF total > 0
        THEN [up |-> Percent1(up_score, total),
              down |-> Percent1(down_score, total),
              sideways |-> Percent1(sideways_score, total)]
        ELSE [up |-> 333, down |-> 333, sideways |-> 333]

\* PricePredictorDebug.predict_price on the same arguments, debug_info left out
DebugPredictPrice(len, close, row, avg_change) ==
    IF BadClose(close) THEN _empty_prediction
    ELSE
      LET sr == AsDict(IF len < 20 THEN EmptySupportResistance
                       ELSE CmpSupportResistance(Val(close), row))
          tp == _predict_trend_probability_debug(len, close, row, avg_change)
      IN  [predictions |-> [d \in DOMAIN prediction_days |-> _predict_single_day("frame", len, sr, tp)],
           support_resistance |-> sr,
           trend_probability |-> tp,
           current_price |-> close]

CmpInit ==
    /\ cmp_pc = "base"
    /\ cmp_len \in PredHistLens
    /\ cmp_close \in Opt({0, 15})
    /\ cmp_row \in CmpRows
    /\ cmp_avg_change \in {0, 60}
    /\ cmp_base = None
    /\ cmp_debug = None

PredictWithBase ==
    /\ cmp_pc = "base"
    /\ cmp_base' = Some(BasePredictPrice(cmp_len, cmp_close, cmp_row, cmp_avg_change))
    /\ cmp_pc' = "debug"
    /\ UNCHANGED <<cmp_len, cmp_close, cmp_row, cmp_avg_change, cmp_debug, NotCompare>>

PredictWithDebug ==
    /\ cmp_pc = "debug"
    /\ cmp_debug' = Some(DebugPredictPrice(cmp_len, cmp_close, cmp_row, cmp_avg_change))
    /\ cmp_pc' = "done"
    /\ UNCHANGED <<cmp_len, cmp_close, cmp_row, cmp_avg_change, cmp_base, NotCompare>>

CmpNext ==
    \/ PredictWithBase
    \/ PredictWithDebug

\* the variables of a component that is not running
SigIdle ==
    /\ sig_pc = "idle"
    /\ sig_close = None
    /\ signal_data = InitialSignalData
    /\ total_weight = 0
    /\ buy_weight = 0
    /\ sell_weight = 0

AlIdle ==
    /\ al_pc = "idle"
    /\ hist_len = 0
    /\ close_pos = "inside"
    /\ al_rsi = None
    /\ al_kdj_j = None
    /\ al_cci = None
    /\ alerts = << >>
    /\ alert_data = None
    /\ al_failed = {}

PredIdle ==
    /\ pred_pc = "idle"
    /\ hist_form = "frame"
    /\ pred_len = 0
    /\ current_price = None
    /\ support_levels = << >>
    /\ resistance_levels = << >>
    /\ sr_return = None
    /\ support_resistance = None
    /\ trend_probability = None
    /\ predictions = << >>
    /\ prediction_data = None

TrendIdle ==
    /\ trend_pc = "idle"
    /\ tr_close = None
    /\ tr_sma_20 = None
    /\ tr_sma_60 = None
    /\ tr_middle_bb = None
    /\ trend_status = None

NarrIdle ==
    /\ narr_pc = "idle"
    /\ trend_signals = << >>
    /\ narr_failed = {}

IndIdle ==
    /\ ind_pc = "idle"
    /\ ind_df = << >>

PipeIdle ==
    /\ pl_pc = "idle"
    /\ pool = << >>
    /\ pl_i = 0
    /\ analysis_report = << >>
    /\ final_report = << >>
    /\ budget_exhausted = FALSE
    /\ pl_returned = None

DetIdle ==
    /\ det_pc = "idle"
    /\ det_close = None
    /\ det_sma_5 = None
    /\ det_sma_10 = None
    /\ det_sma_20 = None
    /\ det_signal_data = None
    /\ det_ma_alerts = << >>
    /\ det_conflict_alerts = << >>

SdIdle ==
    /\ sd_pc = "idle"
    /\ sd_price = 0
    /\ sd_volatility = 0
    /\ sd_day = 0
    /\ sd_support = << >>
    /\ sd_resistance = << >>
    /\ sd_tp = None
    /\ sd_prediction = None

ColIdle ==
    /\ col_pc = "idle"
    /\ col_frame = {}
    /\ col_null = {}
    /\ col_judges = << >>
    /\ col_alert_missing = {}

CmpIdle ==
    /\ cmp_pc = "idle"
    /\ cmp_len = 0
    /\ cmp_close = None
    /\ cmp_row = << >>
    /\ cmp_avg_change = 0
    /\ cmp_base = None
    /\ cmp_debug = None

\* a call of generate_signals
InitSignal == SigInit /\ AlIdle /\ PredIdle /\ TrendIdle /\ NarrIdle /\ IndIdle /\ PipeIdle /\ DetIdle /\ SdIdle /\ ColIdle /\ CmpIdle

SpecSignal == InitSignal /\ [][SigNext]_vars

\* a call of generate_alerts
InitAlert == AlInit /\ SigIdle /\ PredIdle /\ TrendIdle /\ NarrIdle /\ IndIdle /\ PipeIdle /\ DetIdle /\ SdIdle /\ ColIdle /\ CmpIdle

SpecAlert == InitAlert /\ [][AlNext]_vars

\* a call of generate_alerts in which detectors raise
InitAlertFailure == AlFailInit /\ SigIdle /\ PredIdle /\ TrendIdle /\ NarrIdle /\ IndIdle /\ PipeIdle /\ DetIdle /\ SdIdle /\ ColIdle /\ CmpIdle

SpecAlertFailure == InitAlertFailure /\ [][AlFailNext]_vars

\* a call of predict_price
InitPredict == PredInit /\ SigIdle /\ AlIdle /\ TrendIdle /\ NarrIdle /\ IndIdle /\ PipeIdle /\ DetIdle /\ SdIdle /\ ColIdle /\ CmpIdle

SpecPredict == InitPredict /\ [][PredNext]_vars

\* a call of judge_trend_status
InitTrend == TrInit /\ SigIdle /\ AlIdle /\ PredIdle /\ NarrIdle /\ IndIdle /\ PipeIdle /\ DetIdle /\ SdIdle /\ ColIdle /\ CmpIdle

SpecTrend == InitTrend /\ [][TrNext]_vars

\* the narrators of one analysis pass
InitNarrators == NarrInit /\ SigIdle /\ AlIdle /\ PredIdle /\ TrendIdle /\ IndIdle /\ PipeIdle /\ DetIdle /\ SdIdle /\ ColIdle /\ CmpIdle

SpecNarrators == InitNarrators /\ [][NarrNext]_vars

\* a call of one of the two indicator functions
InitIndicators == IndInit /\ SigIdle /\ AlIdle /\ PredIdle /\ TrendIdle /\ NarrIdle /\ PipeIdle /\ DetIdle /\ SdIdle /\ ColIdle /\ CmpIdle

SpecIndicators == InitIndicators /\ [][IndNext]_vars

\* a run of the pipeline over a pool
InitPipeline == PipeInit /\ SigIdle /\ AlIdle /\ PredIdle /\ TrendIdle /\ NarrIdle /\ IndIdle /\ DetIdle /\ SdIdle /\ ColIdle /\ CmpIdle

SpecPipeline == InitPipeline /\ [][PipeNext]_vars

\* single detector calls
InitDetectors == DetInit /\ SigIdle /\ AlIdle /\ PredIdle /\ TrendIdle /\ NarrIdle /\ IndIdle /\ PipeIdle /\ SdIdle /\ ColIdle /\ CmpIdle

SpecDetectors == InitDetectors /\ [][DetNext]_vars

\* a call of _predict_single_day
InitSingleDay == SdInit /\ SigIdle /\ AlIdle /\ PredIdle /\ TrendIdle /\ NarrIdle /\ IndIdle /\ PipeIdle /\ DetIdle /\ ColIdle /\ CmpIdle

SpecSingleDay == InitSingleDay /\ [][SdNext]_vars

\* the columns of a frame through the daily pipeline
InitColumns == ColInit /\ SigIdle /\ AlIdle /\ PredIdle /\ TrendIdle /\ NarrIdle /\ IndIdle /\ PipeIdle /\ DetIdle /\ SdIdle /\ CmpIdle

SpecColumns == InitColumns /\ [][ColNext]_vars

\* the two predictors on the same arguments
InitCompare == CmpInit /\ SigIdle /\ AlIdle /\ PredIdle /\ TrendIdle /\ NarrIdle /\ IndIdle /\ PipeIdle /\ DetIdle /\ SdIdle /\ ColIdle

SpecCompare == InitCompare /\ [][CmpNext]_vars

\* ------------------------------------------------ SignalSystem: claims

SigDone == sig_pc = "done"

FI == signal_data.forward_indicators

WithStatus(st) == {n \in DOMAIN FI : FI[n].status = st}

\* Sum of the fixed weights of a set of judges
WeightOf(S) ==
    (IF "RSI" \in S THEN 25 ELSE 0) + (IF "KDJ" \in S THEN 20 ELSE 0)
    + (IF "MACD" \in S THEN 20 ELSE 0) + (IF "MA" \in S THEN 15 ELSE 0)
    + (IF "BOLLINGER" \in S THEN 10 ELSE 0) + (IF "CCI" \in S THEN 5 ELSE 0)
    + (IF "OBV" \in S THEN 3 ELSE 0) + (IF "WILLIAMS" \in S THEN 2 ELSE 0)

\* C1: when all 8 judges report Buy the bundle is score 100, Strong Buy,
\* confidence 100; when all 8 report Sell it is score 0, Strong Sell,
\* confidence 100; when every judge that reported is Neutral (the claim's
\* "all 8 Neutral" included) it is score 50, Hold, confidence 50.
C1_BoundaryBundles ==
    SigDone =>
      /\ (WithStatus("Buy") = Judges =>
             /\ RatEQ(signal_data.signal_score, 100)
             /\ signal_data.signal_type = "Strong Buy"
             /\ RatEQ(signal_data.confidence, 100))
      /\ (WithStatus("Sell") = Judges =>
             /\ RatEQ(signal_data.signal_score, 0)
             /\ signal_data.signal_type = "Strong Sell"
             /\ RatEQ(signal_data.confidence, 100))
      /\ (WithStatus("Neutral") = DOMAIN FI =>
             /\ RatEQ(signal_data.signal_score, 50)
             /\ signal_data.signal_type = "Hold"
             /\ RatEQ(signal_data.confidence, 50))

C1_Witness_AllBuy == SigDone /\ WithStatus("Buy") = Judges

\* C2: signal_score = 50 + 50 * (buy_weight - sell_weight) / total_weight with
\* total_weight the weights of all judges that reported (Neutral included) and
\* buy/sell_weight those of the Buy/Sell ones; 0 <= score <= 100; score = 50
\* when no judge reported.
C2_ScoreFormula ==
    SigDone =>
      LET t == WeightOf(DOMAIN FI)
          b == WeightOf(WithStatus("Buy"))
          s == WeightOf(WithStatus("Sell"))
          q == signal_data.signal_score
      IN  /\ t > 0 => q.num * t = (50 * t + 50 * (b - s)) * q.den
          /\ t = 0 => RatEQ(q, 50)
          /\ RatGE(q, 0)
          /\ ~RatGE(q, 101) /\ (RatGE(q, 100) => RatEQ(q, 100))

C2_Witness_MixedWithNeutral ==
    /\ SigDone
    /\ WithStatus("Neutral") # {}
    /\ WithStatus("Buy") # {}
    /\ WithStatus("Sell") # {}
    /\ DOMAIN FI # Judges

\* C3: signal_type is Strong Buy iff score >= 85, Buy iff 65 <= score < 85,
\* Hold iff 45 <= score < 65, Sell iff 25 <= score < 45, Strong Sell iff
\* score < 25.
C3_TypeThresholds ==
    SigDone =>
      LET q == signal_data.signal_score
          ty == signal_data.signal_type
      IN  /\ (ty = "Strong Buy") <=> RatGE(q, 85)
          /\ (ty = "Buy") <=> (RatGE(q, 65) /\ RatLT(q, 85))
          /\ (ty = "Hold") <=> (RatGE(q, 45) /\ RatLT(q, 65))
          /\ (ty = "Sell") <=> (RatGE(q, 25) /\ RatLT(q, 45))
          /\ (ty = "Strong Sell") <=> RatLT(q, 25)

\* a score exactly on a threshold
C3_Witness_OnThreshold ==
    /\ SigDone
    /\ RatEQ(signal_data.signal_score, 65)
    /\ signal_data.signal_type = "Buy"

\* C4 (as claimed): signal_strength is Strong if confidence >= 70 or the type
\* is Strong Buy / Strong Sell, and Weak otherwise.
C4_StrengthAsClaimed ==
    SigDone =>
      (signal_data.signal_strength =
         IF RatGE(signal_data.confidence, 70)
            \/ signal_data.signal_type \in {"Strong Buy", "Strong Sell"}
         THEN "Strong" ELSE "Weak")

\* C5 (as claimed): confidence = 100 * max(buy_count, sell_count) / number of
\* judges that reported (Buy, Sell or Neutral); 50 when all of them are Neutral.
C5_ConfidenceAsClaimed ==
    SigDone =>
      LET c == signal_data.confidence
          bc == Cardinality(WithStatus("Buy"))
          sc == Cardinality(WithStatus("Sell"))
          judged == Cardinality(DOMAIN FI)
      IN  IF WithStatus("Neutral") = DOMAIN FI THEN RatEQ(c, 50)
          ELSE c.num * judged = 100 * Max(bc, sc) * c.den

\* C6: a Hold bundle carries exactly the one placeholder reason, whatever the
\* judges have appended.
C6_HoldReasons ==
    SigDone /\ signal_data.signal_type = "Hold"
      => signal_data.signal_reasons = HoldPlaceholder

\* a Hold reached although some judges reported Buy and some Sell
C6_Witness_HoldAfterReasons ==
    /\ SigDone
    /\ signal_data.signal_type = "Hold"
    /\ WithStatus("Buy") # {}
    /\ WithStatus("Sell") # {}

\* ------------------------------------------------- AlertSystem: claims

AlDone == al_pc = "done"

\* the alerts of the returned bundle that carry a level
AlertsAt(level) == SelectSeq(Val(alert_data).alerts, LAMBDA a : a.level = level)

C8_ExtremeOverbought ==
    AlDone /\ al_rsi = Some(85) /\ al_kdj_j = Some(105) /\ al_cci = Some(250)
      => /\ Len(AlertsAt("high")) >= 3
         /\ Val(alert_data).alert_count.high >= 3
         /\ Val(alert_data).overall_risk = "high"

\* the three readings are the only source of high alerts
C8_Witness_ExactlyThreeHigh ==
    /\ AlDone
    /\ al_rsi = Some(85) /\ al_kdj_j = Some(105) /\ al_cci = Some(250)
    /\ Len(AlertsAt("high")) = 3

\* ---------------------------------------------- PricePredictor: claims

PredDone == pred_pc = "done"

ShortHistory == pred_len < 20

\* the latest close is null or non-positive
NoUsableClose == IsNa(current_price) \/ Val(current_price) <= 0

CandidatesBelow == {c \in RoundedPositive(support_levels) : c < Val(current_price)}

CandidatesAbove == {c \in RoundedPositive(resistance_levels) : c > Val(current_price)}

Values(seq) == {seq[i] : i \in DOMAIN seq}

Ascending(seq) == \A i \in DOMAIN seq : \A j \in DOMAIN seq : i < j => seq[i] < seq[j]

\* C10: in every output of the support/resistance computation each support
\* is strictly below current_price and each resistance strictly above it,
\* both lists ascend without duplicates and have at most 3 values, and the
\* values kept are the candidates nearest to current_price on their side: a
\* candidate is left out only when 3 nearer ones are kept.
C10_SupportResistance ==
    NotNa(sr_return) =>
      LET out == Val(sr_return).result
          price == Val(current_price)
      IN  /\ \A v \in Values(out.support) : v < price
          /\ \A v \in Values(out.resistance) : v > price
          /\ Ascending(out.support) /\ Ascending(out.resistance)
          /\ Len(out.support) <= 3 /\ Len(out.resistance) <= 3
          /\ Values(out.support) \subseteq CandidatesBelow
          /\ Values(out.resistance) \subseteq CandidatesAbove
          /\ \A c \in CandidatesBelow \ Values(out.support) :
                /\ Len(out.support) = 3
                /\ \A v \in Values(out.support) : c < v
          /\ \A c \in CandidatesAbove \ Values(out.resistance) :
                /\ Len(out.resistance) = 3
                /\ \A v \in Values(out.resistance) : c > v

\* more than 3 distinct candidates on each side, two of them rounding to the
\* same value
C10_Witness_MoreThanThree ==
    /\ NotNa(sr_return)
    /\ Cardinality(CandidatesBelow) > 3
    /\ Cardinality(CandidatesAbove) > 3
    /\ Len(support_levels) > Cardinality(RoundedPositive(support_levels))
    /\ Len(Val(sr_return).result.support) = 3
    /\ Len(Val(sr_return).result.resistance) = 3

\* every trend_probability of the call: the heuristic's return and the one in
\* the returned bundle
ReturnedProbabilities ==
    (IF NotNa(trend_probability) THEN {Val(trend_probability)} ELSE {})
    \cup (IF NotNa(prediction_data) THEN {Val(prediction_data).trend_probability}
          ELSE {})

\* C11: for every trend_probability PricePredictor returns, the neutral
\* 33/33/34 included, up + down + sideways is 100 within +/- 0.1 (1000 within
\* +/- 1 in tenths of a percent).
C11_ProbabilitiesSumTo100 ==
    \A tp \in ReturnedProbabilities :
       /\ tp.up + tp.down + tp.sideways >= 999
       /\ tp.up + tp.down + tp.sideways <= 1001

\* a returned bundle whose three rounded probabilities sum to 100.1
C11_Witness_RoundingSlack ==
    /\ PredDone
    /\ NotNa(trend_probability)
    /\ Val(prediction_data).trend_probability = Val(trend_probability)
    /\ Val(trend_probability).up + Val(trend_probability).down
         + Val(trend_probability).sideways = 1001

\* the horizon predictions of the returned bundle that carry prices
PricedPredictions ==
    IF PredDone
    THEN {Val(prediction_data).predictions[d] :
            d \in {i \in DOMAIN Val(prediction_data).predictions :
                     Val(prediction_data).predictions[i].has_prices}}
    ELSE {}

\* C12 (as claimed): in every horizon prediction the trend is up when the up
\* probability exceeds 50 percent, down when the down probability exceeds 50
\* percent, sideways otherwise; confidence_score is the percent probability
\* of the selected label (its whole part); confidence is high from 60,
\* medium from 45, low below.
C12_TrendAsClaimed ==
    \A pr \in PricedPredictions :
       LET tp == pr.trend_probability
           label == IF tp.up > 500 THEN "up"
                    ELSE IF tp.down > 500 THEN "down"
                    ELSE "sideways"
           percent == IF label = "up" THEN tp.up
                      ELSE IF label = "down" THEN tp.down
                      ELSE tp.sideways
       IN  /\ pr.trend = label
           /\ pr.confidence_score = percent \div 10
           /\ pr.confidence = IF pr.confidence_score >= 60 THEN "high"
                              ELSE IF pr.confidence_score >= 45 THEN "medium"
                              ELSE "low"

\* ---------------------------------------------------------------------
\* C13 - C15: judge_trend_status
\* ---------------------------------------------------------------------

TrendDone == trend_pc = "done"

\* the latest close lies strictly within 0.5 % of the Bollinger mid band
WithinHalfPercent ==
    /\ NotNa(tr_close)
    /\ NotNa(tr_middle_bb)
    /\ 200 * (Val(tr_close) - Val(tr_middle_bb)) < Val(tr_middle_bb)
    /\ 200 * (Val(tr_middle_bb) - Val(tr_close)) < Val(tr_middle_bb)

\* C13: judge_trend_status returns the data-anomaly status whenever the
\* latest close is null, whatever SMA_20 and the Bollinger mid band hold.
C13_AnomalyOnNullClose ==
    (TrendDone /\ IsNa(tr_close)) => trend_status = Some("data_anomaly")

C13_Witness_NullCloseWithAverages ==
    /\ TrendDone
    /\ IsNa(tr_close)
    /\ NotNa(tr_sma_20)
    /\ NotNa(tr_middle_bb)
    /\ trend_status = Some("data_anomaly")

\* C14 (as claimed): outside the mid-band override, the status is refined to
\* Strong Uptrend when close > SMA_20 and SMA_20 > SMA_60, and to Weak
\* Downtrend when close <= SMA_20 and SMA_20 < SMA_60.
C14_RefinedAsClaimed ==
    (TrendDone /\ NotNa(tr_close) /\ NotNa(tr_sma_20) /\ NotNa(tr_sma_60)
       /\ ~WithinHalfPercent)
    => /\ (Val(tr_close) > Val(tr_sma_20) /\ Val(tr_sma_20) > Val(tr_sma_60))
            => trend_status = Some("strong_uptrend")
       /\ (Val(tr_close) <= Val(tr_sma_20) /\ Val(tr_sma_20) < Val(tr_sma_60))
            => trend_status = Some("weak_downtrend")

\* C15: for a row with close and Bollinger mid band present, the status is
\* Oscillating whenever |close - mid| / mid < 0.5 %, whatever SMA_20 gives or
\* whether it is missing; otherwise it is Uptrend when close > SMA_20 and
\* Downtrend when close <= SMA_20.
C15_MidBandOverridesLast ==
    (TrendDone /\ NotNa(tr_close) /\ NotNa(tr_middle_bb))
    => /\ WithinHalfPercent => trend_status = Some("oscillating")
       /\ (~WithinHalfPercent /\ NotNa(tr_sma_20) /\ Val(tr_close) > Val(tr_sma_20))
            => trend_status = Some("uptrend")
       /\ (~WithinHalfPercent /\ NotNa(tr_sma_20) /\ Val(tr_close) <= Val(tr_sma_20))
            => trend_status = Some("downtrend")

C15_Witness_OverrideOfUptrend ==
    /\ TrendDone
    /\ WithinHalfPercent
    /\ NotNa(tr_sma_20)
    /\ Val(tr_close) > Val(tr_sma_20)
    /\ Val(tr_close) # Val(tr_middle_bb)
    /\ trend_status = Some("oscillating")

\* ---------------------------------------------------------------------
\* C16: the narrators
\* ---------------------------------------------------------------------

IsPrefix(a, b) == Len(a) <= Len(b) /\ SubSeq(b, 1, Len(a)) = a

\* position of a value of narr_pc in the call order, "done" after the last
Position(pc) == IF pc = "done" THEN Len(narrators) + 1 ELSE CHOOSE j \in DOMAIN narrators : narrators[j] = pc

MessagesOf(by, kind) == {i \in DOMAIN trend_signals : trend_signals[i] = Message(by, kind)}

\* C16: the eight narrators run in sequence on one trend_signals list: the
\* list before each call is a prefix of the list after it, each call hands
\* over to the next narrator whether or not it failed inside, and every
\* narrator that failed has left its degraded message in the list.
C16_NarratorsOnlyAppend ==
    /\ [][/\ IsPrefix(trend_signals, trend_signals')
          /\ Position(narr_pc') = Position(narr_pc) + 1]_vars
    /\ [](\A by \in narr_failed : MessagesOf(by, "degraded") # {})

C16_Witness_FailureThenLaterNotes ==
    /\ narr_pc = "done"
    /\ narr_failed = {"analyze_ma", "analyze_kdj"}
    /\ MessagesOf("analyze_ma", "note") # {}
    /\ MessagesOf("analyze_ma", "degraded") # {}
    /\ MessagesOf("analyze_kdj", "degraded") # {}
    /\ MessagesOf("analyze_macd", "note") # {}
    /\ MessagesOf("analyze_williams", "note") # {}

\* ---------------------------------------------------------------------
\* C17: detectors that fail inside generate_alerts
\* ---------------------------------------------------------------------

\* the alerts of the returned bundle that a detector contributed
ContributedBy(detector) ==
    SelectSeq(Val(alert_data).alerts, LAMBDA a : a.type = alert_types[detector])

\* C17 (as claimed): a detector that fails internally contributes no alerts
\* at all to the returned bundle, and alert_count is the count per level
\* over the alerts of the bundle.
C17_FailedDetectorContributesNothing ==
    AlDone =>
       /\ \A detector \in al_failed : ContributedBy(detector) = << >>
       /\ \A level \in {"high", "medium", "low"} :
             Val(alert_data).alert_count[level] = Len(AlertsAt(level))

\* ---------------------------------------------------------------------
\* C18: a failing support/resistance computation inside predict_price
\* ---------------------------------------------------------------------

\* _calculate_support_resistance_debug left through its except branch
SupportResistanceFailed ==
    /\ NotNa(sr_return)
    /\ Val(sr_return).form = "dict"
    /\ DOMAIN Val(sr_return).result = {"support", "resistance"}

\* C18 (as claimed): when the support/resistance computation fails
\* internally, predict_price returns a bundle whose support_resistance is a
\* record with empty support and resistance lists and whose
\* trend_probability is present.
C18_ValidBundleAsClaimed ==
    (PredDone /\ SupportResistanceFailed)
    => /\ NotNa(prediction_data)
       /\ Val(prediction_data).support_resistance.kind = "dict"
       /\ Val(prediction_data).support_resistance.value = EmptySupportResistance
       /\ Val(prediction_data).trend_probability \in
             [up : 0..1000, down : 0..1000, sideways : 0..1000]

\* ---------------------------------------------------------------------
\* C19 - C20: the indicator functions
\* ---------------------------------------------------------------------

IndDone == ind_pc = "done"

\* C19: calculate_forward_indicators and calculate_minute_indicators only
\* add derived columns: every column of the frame is still there with as
\* many rows, every raw open/high/low/close/volume column holds the same
\* values in the same order, and no raw column is created.
C19_OnlyAddsColumns ==
    [][/\ \A col \in DOMAIN ind_df :
             /\ col \in DOMAIN ind_df'
             /\ Len(ind_df'[col]) = Len(ind_df[col])
             /\ col \in RawColumns => ind_df'[col] = ind_df[col]
       /\ \A col \in DOMAIN ind_df' :
             /\ col \in RawColumns => col \in DOMAIN ind_df
             /\ \A other \in DOMAIN ind_df : Len(ind_df'[col]) = Len(ind_df[other])]_vars

C19_Witness_ColumnsAdded ==
    /\ IndDone
    /\ RawColumns \subseteq DOMAIN ind_df
    /\ {"RSI_14", "OBV", "WR2"} \subseteq DOMAIN ind_df
    /\ Len(ind_df["close"]) = FrameLen
    /\ IsNa(ind_df["RSI_14"][1])
    /\ ind_df["close"][FrameLen] < ind_df["close"][1]

\* the RSI_14 cell of the latest bar
LatestRsi == ind_df["RSI_14"][Len(ind_df["RSI_14"])]

\* no bar of the latest 14-bar window closes below the bar before it
NoLossInWindow ==
    LET close == ind_df["close"]
    IN  \A i \in (Len(close) - RsiWindow + 2)..Len(close) : close[i] >= close[i - 1]

\* C20 (as claimed): for a close series that fills the 14-bar window, the
\* RSI_14 of the latest bar is a number in [0, 100], and it is 100 when the
\* window has no loss.
C20_RsiInRangeAsClaimed ==
    (IndDone /\ "RSI_14" \in DOMAIN ind_df /\ "close" \in DOMAIN ind_df
       /\ Len(ind_df["close"]) >= RsiWindow)
    => /\ NotNa(LatestRsi)
       /\ RatGE(Val(LatestRsi), 0)
       /\ ~RatGE(Val(LatestRsi), 100) \/ RatEQ(Val(LatestRsi), 100)
       /\ NoLossInWindow => RatEQ(Val(LatestRsi), 100)

\* ---------------------------------------------------------------------
\* C21: the per-symbol pipeline
\* ---------------------------------------------------------------------

PipeDone == pl_pc = "done"

\* the symbol's series passes the checks of the fetch loop
UsableSeries(i) == pool[i].fetch = "frame"

\* the symbol's daily status names insufficient data (SMA_20 of its latest
\* row is null while its close is not)
InsufficientStatus(i) ==
    \E k \in DOMAIN analysis_report :
       analysis_report[k].code = i /\ analysis_report[k].status = "insufficient_ma"

InReturnedReport(i) == \E k \in DOMAIN Val(pl_returned) : Val(pl_returned)[k] = i

ConflictDone == det_pc = "done"

BuyJudges(sd) == {n \in DOMAIN sd.forward_indicators : sd.forward_indicators[n].status = "Buy"}

SellJudges(sd) == {n \in DOMAIN sd.forward_indicators : sd.forward_indicators[n].status = "Sell"}

ConflictAlertsOf(indicator) ==
    SelectSeq(det_conflict_alerts, LAMBDA a : a.indicator = indicator)

MaAvailable == NotNa(det_close) /\ NotNa(det_sma_5) /\ NotNa(det_sma_10) /\ NotNa(det_sma_20)

PerfectBullish ==
    Val(det_close) > Val(det_sma_5) /\ Val(det_sma_5) > Val(det_sma_10) /\ Val(det_sma_10) > Val(det_sma_20)

PerfectBearish ==
    Val(det_close) < Val(det_sma_5) /\ Val(det_sma_5) < Val(det_sma_10) /\ Val(det_sma_10) < Val(det_sma_20)

\* C23: with close, SMA_5, SMA_10 and SMA_20 available the MA-alignment
\* detector returns exactly one alert: low for the perfect bullish and for
\* the perfect bearish alignment, medium for every other ordering.
C23_OneAlignmentAlert ==
    (det_pc # "ma_alignment" /\ MaAvailable)
    => /\ Len(det_ma_alerts) = 1
       /\ det_ma_alerts[1].type = alert_types.ma_alignment
       /\ det_ma_alerts[1].level = IF PerfectBullish \/ PerfectBearish THEN "low" ELSE "medium"

C23_Witness_MixedAlignment ==
    /\ det_pc = "done"
    /\ MaAvailable
    /\ Val(det_close) > Val(det_sma_5)
    /\ Val(det_sma_5) < Val(det_sma_10)
    /\ det_ma_alerts = <<Alert("medium", alert_types.ma_alignment, "MA")>>

\* ---------------------------------------------------------------------
\* C24, C27: the prices of a horizon prediction
\* ---------------------------------------------------------------------

SdDone == sd_pc = "done"

SdTarget == TargetPrice(sd_price, sd_tp, sd_volatility, prediction_days[sd_day])

SdBandHigh == BandHigh(SdTarget, sd_volatility, prediction_days[sd_day])

SdBandLow == BandLow(SdTarget, sd_volatility, prediction_days[sd_day])

Levels(seq) == {seq[k] : k \in DOMAIN seq}

\* the smallest resistance level and the largest support level
NearestResistance == CHOOSE r \in Levels(sd_resistance) : \A x \in Levels(sd_resistance) : r <= x

NearestSupport == CHOOSE s \in Levels(sd_support) : \A x \in Levels(sd_support) : s >= x

\* C24: the reported high is the band high, unless that exceeds the smallest
\* resistance level: then it is limited to 1.01 times that level; the
\* reported low is the band low, unless that undercuts the largest support
\* level: then it is lifted to 0.99 times that level (both to the cent).
C24_ClampedToNearestLevels ==
    SdDone =>
       /\ Val(sd_prediction).high =
             IF sd_resistance # << >> /\ SdBandHigh.num > NearestResistance * SdBandHigh.den
             THEN RoundCents(RatMin(SdBandHigh, [num |-> 101 * NearestResistance, den |-> 100]))
             ELSE RoundCents(SdBandHigh)
       /\ Val(sd_prediction).low =
             IF sd_support # << >> /\ SdBandLow.num < NearestSupport * SdBandLow.den
             THEN RoundCents(RatMax(SdBandLow, [num |-> 99 * NearestSupport, den |-> 100]))
             ELSE RoundCents(SdBandLow)

C24_Witness_HighCappedAtNearest ==
    /\ SdDone
    /\ Len(sd_resistance) >= 2
    /\ SdBandHigh.num > 110 * SdBandHigh.den
    /\ Val(sd_prediction).high = RoundCents([num |-> 101 * NearestResistance, den |-> 100])
    /\ Val(sd_prediction).low = RoundCents(SdBandLow)

\* C27 as claimed: low <= target <= high in every returned prediction.
C27_TargetWithinRange ==
    SdDone => /\ Val(sd_prediction).low <= Val(sd_prediction).target
              /\ Val(sd_prediction).target <= Val(sd_prediction).high

\* ---------------------------------------------------------------------
\* C25: the sideways share of the trend probability
\* ---------------------------------------------------------------------

\* C25: whenever the trend heuristic has returned, the sideways probability
\* is strictly positive and up, down and sideways are each between 0 and
\* 100 percent (probabilities are in tenths of a percent).
C25_SidewaysNeverZero ==
    NotNa(trend_probability)
    => /\ Val(trend_probability).sideways > 0
       /\ \A k \in {"up", "down", "sideways"} :
             Val(trend_probability)[k] >= 0 /\ Val(trend_probability)[k] <= 1000

\* every readable signal points up and the sideways share is what the base
\* weight alone gives: 10 of 85
C25_Witness_AllSignalsUp ==
    /\ NotNa(trend_probability)
    /\ Val(trend_probability).up = 882
    /\ Val(trend_probability).down = 0
    /\ Val(trend_probability).sideways = 118

\* ---------------------------------------------------------------------
\* C26, C30: the confidence of a returned SignalBundle
\* ---------------------------------------------------------------------

BuyTypes == {"Buy", "Strong Buy"}

SellTypes == {"Sell", "Strong Sell"}

\* C26 as claimed: a Buy or Strong Buy bundle has at least as many Buy as
\* Sell judges, a Sell or Strong Sell bundle at least as many Sell as Buy.
C26_DominantSideAsClaimed ==
    SigDone =>
       /\ signal_data.signal_type \in BuyTypes
             => Cardinality(WithStatus("Buy")) >= Cardinality(WithStatus("Sell"))
       /\ signal_data.signal_type \in SellTypes
             => Cardinality(WithStatus("Sell")) >= Cardinality(WithStatus("Buy"))

\* C26, amended: a Buy or Strong Buy bundle has at least as much Buy weight
\* as Sell weight, a Sell or Strong Sell bundle at least as much Sell weight
\* as Buy weight.
C26_DominantWeight ==
    SigDone =>
       /\ signal_data.signal_type \in BuyTypes => buy_weight >= sell_weight
       /\ signal_data.signal_type \in SellTypes => sell_weight >= buy_weight

\* a Buy bundle decided by one heavy judge against two light ones
C26_Witness_BuyAgainstTheCount ==
    /\ SigDone
    /\ signal_data.signal_type \in BuyTypes
    /\ Cardinality(WithStatus("Buy")) < Cardinality(WithStatus("Sell"))
    /\ buy_weight > sell_weight

ColDone == col_pc = "done"

\* C29 as claimed: every column the judges and the detectors read from the
\* latest row is a column of the frame the pipeline built, and on a frame
\* with volume no judge is unavailable for want of its column.
C29_ReadColumnsAreWritten ==
    ColDone =>
       /\ \A name \in Judges : JudgeReads[name] \subseteq col_frame
       /\ col_alert_missing = {}
       /\ "volume" \in col_frame => \A name \in Judges : col_judges[name] # "no_column"

\* ---------------------------------------------------------------------
\* C28: the debug predictor against the plain one
\* ---------------------------------------------------------------------

CmpDone == cmp_pc = "done"

\* C28 as claimed: on the same arguments PricePredictorDebug.predict_price
\* returns the support_resistance, trend_probability, current_price and
\* predictions that PricePredictor.predict_price returns.
C28_DebugReturnsTheSame ==
    CmpDone =>
       /\ Val(cmp_debug).trend_probability = Val(cmp_base).trend_probability
       /\ Val(cmp_debug).current_price = Val(cmp_base).current_price
       /\ Val(cmp_debug).support_resistance.value.support = Val(cmp_base).support_resistance.value.support
       /\ Val(cmp_debug).support_resistance.value.resistance = Val(cmp_base).support_resistance.value.resistance
       /\ Len(Val(cmp_debug).predictions) = Len(Val(cmp_base).predictions)
       /\ \A d \in DOMAIN Val(cmp_base).predictions :
             /\ Val(cmp_debug).predictions[d].trend = Val(cmp_base).predictions[d].trend
             /\ Val(cmp_debug).predictions[d].confidence = Val(cmp_base).predictions[d].confidence
             /\ Val(cmp_debug).predictions[d].has_prices = Val(cmp_base).predictions[d].has_prices

====
